---- MODULE Spec2Model ----
(***************************************************************************)
(* A model of the Lisp interpreter of lisp-pr-single.c and lisp.hpp: the   *)
(* memory manager (pair pool, atom/string heap, stack,                     *)
(* mark-sweep-compact garbage collector) and the evaluator built on it.    *)
(***************************************************************************)
EXTENDS Integers, Sequences, FiniteSets, TLC

\* ---- bounds of the exploration ----
MemPairs == 4
MemStack == 4
MaxOps == 5

\* ---- tags of the boxed values (single-precision numbering) ----
PRIM == 2041
ATOM == 2042
STRG == 2043
CONS == 2044
CLOS == 2046
MACR == 2047
NIL == 4095
\* size of the reference field of a heap entry
R == 4

VARIABLES
  variant,   \* which build: "single" (lisp-pr-single.c) or "hpp" (lisp.hpp)
  P,         \* number of cells of the pair pool
  S,         \* number of cells of the stack/heap region
  cell,      \* the cell array, indices 0..N-1
  heap,      \* the bytes of the atom/string heap, offsets H..8N-1
  fp,        \* free pair pointer
  hp,        \* heap pointer
  sp,        \* stack pointer
  used,      \* the set of bits set in used[]
  env,       \* the global environment
  err,       \* the error code being raised, 0 when none
  crash,     \* TRUE once a write went outside its region: behaviour is undefined from there
  op,        \* the operation that produced this state
  nops,      \* number of operations performed
  lastgc,    \* ghost: the memory before and after the most recent gc()
  debug,     \* TRUE for a build with -DDEBUG, which sets ALWAYS_GC
  argorder,  \* the order in which the build evaluates the arguments of a call: "ltr" or "rtl"
  prog,      \* the input: a sequence of tokens
  inp,       \* the number of tokens scanned
  ctl,       \* the activations of the interpreter's C functions, innermost last
  rv,        \* the value the last return delivered
  jb,        \* the activation the jump buffer (the innermost try block) leads to
  out,       \* what the read-eval-print loop has printed
  val,       \* the value handed to print() when its text is read back
  back,      \* what readlisp() returned for that text
  sig,       \* the disposition of SIGINT: "DFL", "IGN" or "err" (the handler that raises break)
  gcs        \* the activation of gc() when it runs step by step: its place and its locals

build == <<variant, P, S, debug, argorder, prog>>
memory == <<cell, heap, fp, hp, sp, used, env, err, crash, lastgc, inp>>
text == <<val, back>>
signal == <<sig, gcs>>
vars == <<build, memory, ctl, rv, jb, out, op, nops, text, signal>>
\* no gc() is running step by step
Idle == [at |-> "idle"]

\* ---- values ----
\* a number is modelled with the pseudo tag 0; its ordinal bits are 0 for the
\* small integers used here
box(t, i) == [t |-> t, i |-> i]
num(n) == [t |-> 0, i |-> n]
T(x) == x.t
ord(x) == IF x.t = 0 THEN 0 ELSE x.i
nil == box(NIL, 0)
\* (T(x) & ~(CONS^MACR)) == CONS
IsPairRef(x) == T(x) - (T(x) % 4) = CONS
\* (T(x) & ~(ATOM^STRG)) == ATOM
IsHeapRef(x) == T(x) - (T(x) % 2) = ATOM
equ(x, y) == x = y

\* ---- layout ----
N == P + S
W == IF variant = "single" THEN 4 ELSE 8
H == W * P
HeapEnd == 8 * N
\* used[i/64] & 1 << i/2%32, as a bit position
markbit(i) == 32 * (i \div 64) + ((i \div 2) % 32)
\* used[i/32] & 1 << i%32 for pair number i
sweepbit(i) == 32 * (i \div 32) + (i % 32)

Byte(h, a) == IF a \in DOMAIN h THEN h[a] ELSE 0
Cell(c, i) == IF i \in DOMAIN c THEN c[i] ELSE nil

RECURSIVE strlen(_, _)
strlen(h, a) == IF Byte(h, a) = 0 THEN 0 ELSE 1 + strlen(h, a + 1)

\* the NUL-terminated byte string at offset a
StrAt(h, a) == [k \in 1..strlen(h, a) |-> h[a + k - 1]]

\* the memory manager's state as one record; an operation applied to a memory
\* with a raised error or a crash leaves it alone (the call is never reached)
Mem == [cell |-> cell, heap |-> heap, fp |-> fp, hp |-> hp, sp |-> sp,
        used |-> used, env |-> env, err |-> 0, crash |-> FALSE, ret |-> nil,
        lastgc |-> lastgc, pos |-> inp]
Ok(m) == m.err = 0 /\ ~m.crash

\* ---- sequencing ----
\* F applied to the memory m and to the value the last call returned
Bind(m, F(_, _)) == F(m, m.ret)
WithRet(m, v) == IF Ok(m) THEN [m EXCEPT !.ret = v] ELSE m
\* box(t, ord(<the value returned>))
SetTag(m, t) == IF Ok(m) THEN [m EXCEPT !.ret = box(t, m.ret.i)] ELSE m

\* ---- loops ----
\* while (C(r)) r = B(r), where the loop makes at most n iterations
RECURSIVE While(_, _, _, _)
While(C(_), B(_), r, n) ==
  IF n <= 0 \/ ~C(r) THEN r
  ELSE IF n <= 4 THEN While(C, B, B(r), n - 1)
  ELSE While(C, B, While(C, B, r, n \div 2), n - (n \div 2))

\* ---- mark: pointer reversal (lisp-pr-single.c) ----
\* r holds the cells c, the used bits u, the locals i and j of mark() and the
\* place at in its nested loops: "outer" at the test of the outer loop, "down"
\* and "up" in the two inner loops, "done" at the return
\* a way down that looks at no used bit
markDownAgain(r) ==
  LET i == r.i
      c == r.c
  IN IF IsPairRef(Cell(c, i))
     THEN [c |-> [c EXCEPT ![i] = box(T(c[i]), r.j)], u |-> r.u \cup {markbit(i)},
           i |-> ord(c[i]), j |-> i, at |-> "down"]
     ELSE IF IsPairRef(Cell(c, i + 1))
          THEN [c |-> [c EXCEPT ![i + 1] = box(T(c[i + 1]), r.j)], u |-> r.u \cup {markbit(i)},
                i |-> ord(c[i + 1]), j |-> i + 1, at |-> "down"]
          ELSE [c |-> c, u |-> r.u \cup {markbit(i)}, i |-> i + 1, j |-> r.j, at |-> "up"]

markDown(r) ==
  LET u1 == r.u \cup {markbit(r.i)}
      i == r.i
      c == r.c
  IN IF IsPairRef(Cell(c, i)) /\ markbit(ord(Cell(c, i))) \notin u1
     THEN [c |-> [c EXCEPT ![i] = box(T(c[i]), r.j)], u |-> u1,
           i |-> ord(c[i]), j |-> i, at |-> "down"]
     ELSE IF IsPairRef(Cell(c, i + 1)) /\ markbit(ord(Cell(c, i + 1))) \notin u1
          THEN [c |-> [c EXCEPT ![i + 1] = box(T(c[i + 1]), r.j)], u |-> u1,
                i |-> ord(c[i + 1]), j |-> i + 1, at |-> "down"]
          ELSE [c |-> c, u |-> u1, i |-> i + 1, j |-> r.j, at |-> "up"]

\* a way up that leaves the reversed pointer in the cell
markUpKeep(r) ==
  IF r.j < N
  THEN [c |-> r.c, u |-> r.u,
        i |-> r.j, j |-> ord(r.c[r.j]), at |-> IF r.j % 2 = 0 THEN "outer" ELSE "up"]
  ELSE [r EXCEPT !.at = "outer"]

markUp(r) ==
  IF r.j < N
  THEN [c |-> [r.c EXCEPT ![r.j] = box(T(r.c[r.j]), r.i - (r.i % 2))], u |-> r.u,
        i |-> r.j, j |-> ord(r.c[r.j]), at |-> IF r.j % 2 = 0 THEN "outer" ELSE "up"]
  ELSE [r EXCEPT !.at = "outer"]

markLoop(r) ==
  IF r.at = "down" THEN markDown(r)
  ELSE IF r.at = "up" THEN markUp(r)
  ELSE [r EXCEPT !.at = IF r.j < N \/ r.i % 2 = 0 THEN "down" ELSE "done"]

\* every pair is entered once and left once through each of its two cells
markPR(c, u, i) ==
  IF markbit(i) \in u THEN [c |-> c, u |-> u, at |-> "done"]
  ELSE While(LAMBDA r : r.at # "done", markLoop,
             [c |-> c, u |-> u, i |-> i, j |-> N, at |-> "outer"], 6 * P + 6)

\* ---- mark: recursive on car, iterative on cdr (lisp.hpp) ----
\* r holds the used bits u, the parameter i, the parameters stk of the calls
\* that wait for a recursive call to return, and the place at in mark():
\* "test" at the test of the loop, "cdr" after the recursive call, "ret" at the
\* return, "done" when the outermost call has returned
markRecStep(c, r) ==
  IF r.at = "test"
  THEN IF markbit(r.i) \in r.u THEN [r EXCEPT !.at = "ret"]
       ELSE IF IsPairRef(Cell(c, r.i))
            THEN [u |-> r.u \cup {markbit(r.i)}, i |-> ord(c[r.i]),
                  stk |-> Append(r.stk, r.i), at |-> "test"]
            ELSE [r EXCEPT !.u = r.u \cup {markbit(r.i)}, !.at = "cdr"]
  ELSE IF r.at = "cdr"
       THEN IF IsPairRef(Cell(c, r.i + 1)) THEN [r EXCEPT !.i = ord(c[r.i + 1]), !.at = "test"]
            ELSE [r EXCEPT !.at = "ret"]
       ELSE IF r.stk = <<>> THEN [r EXCEPT !.at = "done"]
            ELSE [r EXCEPT !.i = r.stk[Len(r.stk)], !.stk = SubSeq(r.stk, 1, Len(r.stk) - 1),
                           !.at = "cdr"]

\* a mark that sets the bit of the pair it is given and follows no link
markRecRoot(c, u, i) == [u |-> u \cup {markbit(i)}, i |-> i, stk |-> <<>>, at |-> "done"]
markRec(c, u, i) ==
  While(LAMBDA r : r.at # "done", LAMBDA r : markRecStep(c, r),
        [u |-> u, i |-> i, stk |-> <<>>, at |-> "test"], 6 * P + 6)

\* a mark() that did not return leaves the program hanging
markStore(m, r) == [m EXCEPT !.cell = r.c, !.used = r.u, !.crash = r.at # "done"]
markStoreRec(m, r) == [m EXCEPT !.used = r.u, !.crash = r.at # "done"]

mark(m, i) ==
  IF variant = "hpp"
  THEN markStoreRec(m, markRec(m.cell, m.used, i))
  ELSE markStore(m, markPR(m.cell, m.used, i))

\* ---- sweep ----
\* r holds the cells c, fp and the locals i and j of sweep()
sweepStep(u, r) ==
  IF sweepbit(r.i - 1) \notin u
  THEN [c |-> [r.c EXCEPT ![2 * (r.i - 1)] = box(NIL, r.fp)], fp |-> 2 * (r.i - 1),
        i |-> r.i - 1, j |-> r.j + 2]
  ELSE [r EXCEPT !.i = r.i - 1]

sweepLoop(c, u, f, i, j) ==
  While(LAMBDA r : r.i # 0, LAMBDA r : sweepStep(u, r),
        [c |-> c, fp |-> f, i |-> i, j |-> j], i)

sweepStore(m, r) == [m EXCEPT !.cell = r.c, !.fp = r.fp, !.ret = num(r.j)]

\* a sweep that does not start from an empty free list
sweepOnto(m) == sweepStore(m, sweepLoop(m.cell, m.used, m.fp, P \div 2, 0))
sweep(m) == sweepStore(m, sweepLoop(m.cell, m.used, 0, P \div 2, 0))

\* ---- compact ----
\* add cell i to the linked list of the heap entry it refers to
\* a reference field outside the heap is a write into the pool or past the array
linkAt(m, i, a) ==
  IF a \in DOMAIN m.heap
  THEN [m EXCEPT !.heap[a] = i, !.cell[i] = box(T(m.cell[i]), Byte(m.heap, a))]
  ELSE [m EXCEPT !.crash = TRUE]
link(m, i) == linkAt(m, i, ord(m.cell[i]) - R)

\* mark every heap entry unused by setting its reference field to N
compactClear(h, i, top) ==
  While(LAMBDA r : r.i < top /\ r.i \in DOMAIN r.h,
        LAMBDA r : [h |-> [r.h EXCEPT ![r.i] = N], i |-> r.i + strlen(r.h, r.i + R) + R + 1],
        [h |-> h, i |-> i], (top - i) \div (R + 1) + 1).h

compactLink(m, i, n, pool) ==
  While(LAMBDA r : r.i < n,
        LAMBDA r : [m |-> IF (pool => markbit(r.i) \in r.m.used) /\ IsHeapRef(r.m.cell[r.i])
                          THEN link(r.m, r.i) ELSE r.m,
                    i |-> r.i + 1],
        [m |-> m, i |-> i], n - i).m

\* a compaction that leaves the cells on the list with their list links
compactRelinkLost(c, l, k) == c

\* relink the cells on the list starting at l to the entry's new place k
compactRelink(c, l, k) ==
  While(LAMBDA r : r.l < N /\ r.l \in DOMAIN r.c,
        LAMBDA r : [c |-> [r.c EXCEPT ![r.l] = box(T(r.c[r.l]), k + R)], l |-> ord(r.c[r.l])],
        [c |-> c, l |-> l], N).c

\* memmove(A+k, A+i, n) when k < i
memmove(h, k, i, n) ==
  IF k < i
  THEN [a \in DOMAIN h |-> IF a >= k /\ a < k + n THEN Byte(h, i + (a - k)) ELSE h[a]]
  ELSE h

\* a compaction that keeps the entries no cell refers to
compactEntryAll(m, i, n, l) ==
  [m EXCEPT !.heap = memmove(m.heap, m.hp, i, n),
            !.cell = IF l < N THEN compactRelink(m.cell, l, m.hp) ELSE m.cell,
            !.hp = m.hp + n]

\* the entry at i, of n bytes, whose list starts at l
compactEntry(m, i, n, l) ==
  IF ~(l < N) THEN m
  ELSE [m EXCEPT !.heap = memmove(m.heap, m.hp, i, n),
                 !.cell = compactRelink(m.cell, l, m.hp),
                 !.hp = m.hp + n]

compactMove(m, top, i) ==
  While(LAMBDA r : r.i < top,
        LAMBDA r : [m |-> compactEntry(r.m, r.i, strlen(r.m.heap, r.i + R) + R + 1,
                                       Byte(r.m.heap, r.i)),
                    i |-> r.i + strlen(r.m.heap, r.i + R) + R + 1],
        [m |-> m, i |-> i], (top - i) \div (R + 1) + 1).m

compact(m) ==
  compactMove([compactLink(compactLink([m EXCEPT !.heap = compactClear(m.heap, H, m.hp)],
                                       0, P, TRUE),
                           m.sp, N, FALSE) EXCEPT !.hp = H],
              m.hp, H)

\* ---- gc ----
\* a collection that takes no root from the stack
gcRootsNone(m, i) == m

gcRoots(m, i) ==
  While(LAMBDA r : r.i < N,
        LAMBDA r : [m |-> IF IsPairRef(r.m.cell[r.i]) THEN mark(r.m, ord(r.m.cell[r.i]))
                          ELSE r.m,
                    i |-> r.i + 1],
        [m |-> m, i |-> i], N - i).m

gcEnv(m) == IF T(m.env) = CONS THEN mark(m, ord(m.env)) ELSE m

Snapshot(m) == [cell |-> m.cell, heap |-> m.heap, fp |-> m.fp, hp |-> m.hp,
                sp |-> m.sp, used |-> m.used, env |-> m.env]

\* m: the memory at entry, m3: after sweep(), m4: after compact()
gcEnd(m, m3, m4) ==
  [m4 EXCEPT !.ret = m3.ret,
             !.err = IF m3.ret.i = 0 THEN 7 ELSE 0,
             !.lastgc = [pre |-> Snapshot(m), post |-> Snapshot(m4), n |-> m3.ret.i]]

gcSwept(m, m3) == gcEnd(m, m3, compact(m3))

gc(m) ==
  IF ~Ok(m) THEN m
  ELSE gcSwept(m, sweep(gcRoots(gcEnv([m EXCEPT !.used = {}]), m.sp)))

\* ---- stack ----
\* the bytes of the heap have run into the bytes of the stack cells or past cell[]
Collide(m) == m.hp > W * m.sp \/ m.hp > W * N \/ m.sp < 0
Crashed(m) == IF Collide(m) THEN [m EXCEPT !.crash = TRUE] ELSE m

\* if (hp+n > (sp-1) << 3) err(6), after the gc()
NeedSpace(g, n) == IF Ok(g) /\ g.hp + n > 8 * (g.sp - 1) THEN [g EXCEPT !.err = 6] ELSE g

push(m, x) ==
  IF ~Ok(m) THEN m
  ELSE IF m.sp - 1 \notin DOMAIN m.cell THEN [m EXCEPT !.crash = TRUE]
  ELSE IF m.hp > 8 * (m.sp - 2) \/ debug
       THEN Crashed(NeedSpace(gc([m EXCEPT !.sp = m.sp - 1, !.cell[m.sp - 1] = x]), 0))
       ELSE Crashed([m EXCEPT !.sp = m.sp - 1, !.cell[m.sp - 1] = x])

pop(m) == IF ~Ok(m) THEN m ELSE [m EXCEPT !.sp = m.sp + 1, !.ret = Cell(m.cell, m.sp)]

\* an unwind that leaves the stack as it is
unwindKeep(m, i) == m
unwind(m, i) == IF ~Ok(m) THEN m ELSE [m EXCEPT !.sp = i]

\* ---- heap ----
allocTake(m, n) == IF Ok(m) THEN [m EXCEPT !.hp = m.hp + n, !.ret = num(m.hp + R)] ELSE m

alloc(m, n) ==
  IF ~Ok(m) THEN m
  ELSE IF m.hp + n + R + 1 > 8 * (m.sp - 1) \/ debug
       THEN Crashed(allocTake(NeedSpace(gc(m), n + R + 1), n + R + 1))
       ELSE Crashed(allocTake(m, n + R + 1))

\* strcpy(A+i, s)
strcpy(h, i, s) ==
  [a \in DOMAIN h |-> IF a >= i /\ a < i + Len(s) THEN s[a - i + 1]
                      ELSE IF a = i + Len(s) THEN 0 ELSE h[a]]

copyStore(m, s) == IF Ok(m) THEN [m EXCEPT !.heap = strcpy(m.heap, m.ret.i, s)] ELSE m

copy(m, s) == copyStore(alloc(m, Len(s)), s)

\* a search that never finds the name
atomFindNone(h, top, i, s) == top
atomFind(h, top, i, s) ==
  While(LAMBDA k : k < top /\ StrAt(h, k) # s, LAMBDA k : k + strlen(h, k) + R + 1,
        i, (top - i) \div (R + 1) + 1)

atomAt(m, s, i) == IF i >= m.hp THEN SetTag(copy(m, s), ATOM) ELSE [m EXCEPT !.ret = box(ATOM, i)]

atom(m, s) == IF ~Ok(m) THEN m ELSE atomAt(m, s, atomFind(m.heap, m.hp, H + R, s))

string(m, s) == SetTag(copy(m, s), STRG)

\* ---- pairs ----
\* the pair i = fp is taken: fp = ord(cell[i]); cell[i] = x; cell[i+1] = y
consTake(m, x, y) ==
  [m EXCEPT !.fp = ord(m.cell[m.fp]), !.cell[m.fp] = x, !.cell[m.fp + 1] = y,
            !.ret = box(CONS, m.fp)]

cons(m, x, y) ==
  IF ~Ok(m) THEN m
  ELSE IF m.fp \notin DOMAIN m.cell \/ m.fp + 1 \notin DOMAIN m.cell
       THEN [m EXCEPT !.crash = TRUE]
       ELSE IF ord(m.cell[m.fp]) = 0 \/ debug
            THEN WithRet(pop(gc(push(consTake(m, x, y), box(CONS, m.fp)))), box(CONS, m.fp))
            ELSE consTake(m, x, y)

pair(m, v, x, e) == Bind(cons(m, v, x), LAMBDA q, p : cons(q, p, e))

\* a closure that never keeps the environment it was made in
closureGlobal(m, v, x, e) == SetTag(pair(m, v, x, nil), CLOS)
\* a closure that keeps the environment it was made in even when that is env
closureCaptured(m, v, x, e) == SetTag(pair(m, v, x, e), CLOS)
closure(m, v, x, e) == SetTag(pair(m, v, x, IF equ(e, m.env) THEN nil ELSE e), CLOS)

macro(m, v, x) == SetTag(cons(m, v, x), MACR)

car(m, p) ==
  IF ~Ok(m) THEN m
  ELSE IF IsPairRef(p) THEN [m EXCEPT !.ret = Cell(m.cell, ord(p))] ELSE [m EXCEPT !.err = 1]

cdr(m, p) ==
  IF ~Ok(m) THEN m
  ELSE IF IsPairRef(p) THEN [m EXCEPT !.ret = Cell(m.cell, ord(p) + 1)] ELSE [m EXCEPT !.err = 1]

\* ---- construction ----
\* names are strings of byte codes
nT == <<35, 116>>
nERR == <<69, 82, 82>>

NoGc == [pre |-> <<>>, post |-> <<>>, n |-> -1]

\* the zero-initialised statics
Mem0 == [cell |-> [i \in 0..(N - 1) |-> num(0)], heap |-> [a \in H..(HeapEnd - 1) |-> 0],
         fp |-> 0, hp |-> H, sp |-> N, used |-> {}, env |-> num(0),
         err |-> 0, crash |-> FALSE, ret |-> nil, lastgc |-> NoGc, pos |-> 0]

SetEnv(m) == IF Ok(m) THEN [m EXCEPT !.env = m.ret] ELSE m

\* env = pair(atom(prim[i].s), box(PRIM, i), env) for each primitive of the table
bootPrim(m, s, i) ==
  SetEnv(Bind(atom(m, s), LAMBDA q, a : pair(q, a, box(PRIM, i - 1), q.env)))

bootPrims(m, table, i) ==
  While(LAMBDA r : r.i <= Len(table) /\ Ok(r.m),
        LAMBDA r : [m |-> bootPrim(r.m, table[r.i], r.i), i |-> r.i + 1],
        [m |-> m, i |-> i], Len(table)).m

\* main() up to the first prompt: sweep, #t, the environment with the primitives
boot(table) ==
  bootPrims(SetEnv(Bind(atom(sweep(Mem0), nT), LAMBDA q, t : pair(q, t, t, nil))), table, 1)

SetMem(m) ==
  /\ cell' = m.cell /\ heap' = m.heap /\ fp' = m.fp /\ hp' = m.hp /\ sp' = m.sp
  /\ used' = m.used /\ env' = m.env /\ err' = m.err /\ crash' = m.crash
  /\ lastgc' = m.lastgc /\ inp' = m.pos

\* ---- input ----
\* the bytes of the names that occur in the input and in the table of primitives
Code ==
  "eval" :> <<101, 118, 97, 108>>
  @@ "quote" :> <<113, 117, 111, 116, 101>>
  @@ "cons" :> <<99, 111, 110, 115>>
  @@ "car" :> <<99, 97, 114>>
  @@ "cdr" :> <<99, 100, 114>>
  @@ "+" :> <<43>>
  @@ "-" :> <<45>>
  @@ "eq?" :> <<101, 113, 63>>
  @@ "not" :> <<110, 111, 116>>
  @@ "begin" :> <<98, 101, 103, 105, 110>>
  @@ "cond" :> <<99, 111, 110, 100>>
  @@ "if" :> <<105, 102>>
  @@ "lambda" :> <<108, 97, 109, 98, 100, 97>>
  @@ "macro" :> <<109, 97, 99, 114, 111>>
  @@ "define" :> <<100, 101, 102, 105, 110, 101>>
  @@ "let" :> <<108, 101, 116>>
  @@ "let*" :> <<108, 101, 116, 42>>
  @@ "letrec" :> <<108, 101, 116, 114, 101, 99>>
  @@ "letrec*" :> <<108, 101, 116, 114, 101, 99, 42>>
  @@ "setq" :> <<115, 101, 116, 113>>
  @@ "set-car!" :> <<115, 101, 116, 45, 99, 97, 114, 33>>
  @@ "set-cdr!" :> <<115, 101, 116, 45, 99, 100, 114, 33>>
  @@ "catch" :> <<99, 97, 116, 99, 104>>
  @@ "throw" :> <<116, 104, 114, 111, 119>>
  @@ "#t" :> <<35, 116>>
  @@ "ERR" :> <<69, 82, 82>>
  @@ "a" :> <<97>>
  @@ "b" :> <<98>>
  @@ "c" :> <<99>>
  @@ "f" :> <<102>>
  @@ "g" :> <<103>>
  @@ "i" :> <<105>>
  @@ "j" :> <<106>>
  @@ "k" :> <<107>>
  @@ "m" :> <<109>>
  @@ "n" :> <<110>>
  @@ "r" :> <<114>>
  @@ "s" :> <<115>>
  @@ "x" :> <<120>>
  @@ "y" :> <<121>>
  @@ "h" :> <<104>>
  @@ "acc" :> <<97, 99, 99>>
  @@ "loop" :> <<108, 111, 111, 112>>
  @@ "done" :> <<100, 111, 110, 101>>

\* the tokens sscanf("%g%n") accepts as a number, and the number each stands for
NumOf == "0" :> 0 @@ "1" :> 1 @@ "2" :> 2 @@ "3" :> 3 @@ "4" :> 4 @@ "5" :> 5 @@ "7" :> 7 @@ "9" :> 9
         @@ "10" :> 10
\* the tokens that start with a double quote, and the bytes between the quotes
StrOf == "\"junk\"" :> <<106, 117, 110, 107>> @@ "\"ab\"" :> <<97, 98>>

\* buf[] after the scan() that read token number m.pos; reading past the end of
\* the input would block in get(), the actions never do it
Buf(m) == IF m.pos \in 1..Len(prog) THEN prog[m.pos] ELSE ")"
scan(m) == IF Ok(m) THEN [m EXCEPT !.pos = m.pos + 1] ELSE m
Raise(m, n) == IF Ok(m) THEN [m EXCEPT !.err = n] ELSE m
consNil(m) == cons(m, m.ret, nil)
\* *p = <the value returned>, for a pointer p to cell k
Store(m, k) == IF Ok(m) THEN [m EXCEPT !.cell[k] = m.ret] ELSE m

\* ---- the table of primitives ----
\* prim[].s of the primitives that are modelled, in the order of the table
prim == <<"eval", "quote", "cons", "car", "cdr", "+", "-", "eq?", "not", "begin", "cond",
          "if", "lambda", "macro", "define", "let", "let*", "letrec", "letrec*", "setq",
          "set-car!", "set-cdr!", "catch", "throw">>
\* prim[].m
SPECIAL == {"quote", "begin", "cond", "if", "lambda", "macro", "define", "let", "let*",
            "letrec", "letrec*", "setq", "catch"}
TAILCALL == {"eval", "begin", "cond", "if", "let", "let*", "letrec", "letrec*"}
\* the primitives whose function calls eval(): they run as activations of their own
CALLING == {"begin", "cond", "if", "define", "let", "let*", "letrec", "letrec*", "setq", "catch"}
\* prim[].f of those
PrimFn == "begin" :> "f_begin" @@ "cond" :> "f_cond" @@ "if" :> "f_if" @@ "define" :> "f_define"
          @@ "let" :> "f_let" @@ "let*" :> "f_leta" @@ "letrec" :> "f_letrec"
          @@ "letrec*" :> "f_letreca" @@ "setq" :> "f_setq" @@ "catch" :> "f_catch"
PrimName(i) == IF i + 1 \in DOMAIN prim THEN prim[i + 1] ELSE "?"
PrimNames == [i \in DOMAIN prim |-> Code[prim[i]]]
\* the constant tru = atom("#t"): the first entry of the heap
tru == box(ATOM, H + R)

\* ---- activations ----
Top == ctl[Len(ctl)]
At(f) == ~crash /\ ctl # <<>> /\ Top.fn = f
Ltr == argorder = "ltr"

\* a pointer L*: to a stack cell, or to a local variable of the caller
Ref(i) == [cell |-> TRUE, i |-> i, v |-> nil]
Local(v) == [cell |-> FALSE, i |-> 0, v |-> v]
Deref(m, p) == IF p.cell THEN Cell(m.cell, p.i) ELSE p.v

StepFrame(x, e) == [fn |-> "step", pc |-> "entry", x |-> x, e |-> e, k |-> 0, v |-> nil,
                    i |-> 0, a |-> nil]
EvlisFrame(t, e) == [fn |-> "evlis", pc |-> "entry", t |-> t, e |-> e, p |-> 0]
PrimFrame(f, t, e) == [fn |-> f, pc |-> "entry", t |-> t, e |-> e, d |-> nil, s |-> nil,
                       a |-> nil, savedsp |-> 0, savedjb |-> 0]

\* what a segment of a function leaves: the memory, the activations, the value
\* returned and the jump buffer
Goto(m, fr) == [m |-> m, ctl |-> [ctl EXCEPT ![Len(ctl)] = fr], rv |-> rv, jb |-> jb]
Call(m, fr, g) == [m |-> m, ctl |-> Append([ctl EXCEPT ![Len(ctl)] = fr], g), rv |-> rv,
                   jb |-> jb]
Return(m, v) == [m |-> m, ctl |-> SubSeq(ctl, 1, Len(ctl) - 1), rv |-> v, jb |-> jb]
Ret(m) == Return(m, m.ret)
Fail(m, n) == Return(Raise(m, n), nil)

\* longjmp(jb, n) and throw n: the activations above the one jb leads to are gone,
\* that one resumes in its handler. In lisp.hpp the handler lies outside the try
\* block, so the enclosing try block is the active one while the handler runs;
\* in the C files jb is restored only after the handler.
Deliver(o) ==
  /\ SetMem(o.m)
  /\ ctl' = [SubSeq(o.ctl, 1, o.jb) EXCEPT ![o.jb].pc = "handler"]
  /\ jb' = IF variant = "hpp" /\ o.ctl[o.jb].fn = "f_catch" THEN o.ctl[o.jb].savedjb ELSE o.jb
  /\ rv' = rv

\* the step of the segment with outcome o
Finish(o) ==
  /\ IF o.m.crash THEN SetMem(o.m) /\ UNCHANGED <<ctl, rv, jb>>
     ELSE IF o.m.err # 0 THEN Deliver(o)
     ELSE SetMem(o.m) /\ ctl' = o.ctl /\ rv' = o.rv /\ jb' = o.jb
  /\ UNCHANGED <<build, text, signal, op, nops>>

\* ---- assoc ----
\* while (T(e) == CONS && !equ(v, car(car(e)))) e = cdr(e)
assocLoop(m, v, e) ==
  While(LAMBDA d : T(d) = CONS /\ IsPairRef(Cell(m.cell, ord(d)))
                   /\ ~equ(v, Cell(m.cell, ord(Cell(m.cell, ord(d))))),
        LAMBDA d : Cell(m.cell, ord(d) + 1), e, P)

assocEnd(m, e) ==
  IF T(e) # CONS THEN Raise(m, 3)
  ELSE IF ~IsPairRef(Cell(m.cell, ord(e))) THEN Raise(m, 1)
  ELSE [m EXCEPT !.ret = Cell(m.cell, ord(Cell(m.cell, ord(e))) + 1)]

assoc(m, v, e) == IF ~Ok(m) THEN m ELSE assocEnd(m, assocLoop(m, v, e))

\* ---- primitives that do not call eval() ----
cadr(m, t) == Bind(cdr(m, t), LAMBDA q, d : car(q, d))
f_ident(m, t) == car(m, t)
f_cons(m, t) == Bind(car(m, t), LAMBDA q, x : Bind(cadr(q, t), LAMBDA q2, y : cons(q2, x, y)))
f_car(m, t) == Bind(car(m, t), LAMBDA q, x : car(q, x))
f_cdr(m, t) == Bind(car(m, t), LAMBDA q, x : cdr(q, x))
\* n + y and n - y on floats: a boxed operand is a NaN and the result is that NaN
arith(n, y, sign) ==
  IF T(n) # 0 THEN n ELSE IF T(y) # 0 THEN y ELSE num(n.i + sign * y.i)
\* -x flips the sign bit, which is the top bit of the tag of a boxed value
neg(x) == IF T(x) = 0 THEN num(0 - x.i) ELSE box((T(x) + 2048) % 4096, x.i)
\* while (!not(t = cdr(t))) n += car(t), or n -= car(t)
RECURSIVE arithLoop(_, _, _, _)
arithNext(m, t, n, sign) ==
  IF ~Ok(m) THEN m
  ELSE IF T(t) = NIL THEN [m EXCEPT !.ret = n]
  ELSE Bind(car(m, t), LAMBDA q, y : arithLoop(q, t, arith(n, y, sign), sign))
arithLoop(m, t, n, sign) == Bind(cdr(m, t), LAMBDA q, u : arithNext(q, u, n, sign))
f_add(m, t) == Bind(car(m, t), LAMBDA q, n : arithLoop(q, t, n, 1))
f_subFirst(m, t, n) ==
  IF ~Ok(m) THEN m ELSE arithLoop(m, t, IF T(m.ret) = NIL THEN neg(n) ELSE n, -1)
f_sub(m, t) == Bind(car(m, t), LAMBDA q, n : f_subFirst(cdr(q, t), t, n))
\* T(x) == STRG && T(y) == STRG ? !strcmp(A+ord(x), A+ord(y)) : equ(x, y)
same(m, x, y) ==
  IF T(x) = STRG /\ T(y) = STRG THEN StrAt(m.heap, ord(x)) = StrAt(m.heap, ord(y))
  ELSE equ(x, y)
f_eq(m, t) ==
  Bind(car(m, t), LAMBDA q, x :
    Bind(cadr(q, t), LAMBDA q2, y : WithRet(q2, IF same(q2, x, y) THEN tru ELSE nil)))
f_not(m, t) == Bind(car(m, t), LAMBDA q, x : WithRet(q, IF T(x) = NIL THEN tru ELSE nil))
\* L p = car(t); return T(p) == CONS ? CAR(p) = car(cdr(t)) : err(1)
f_setcar(m, t) ==
  Bind(car(m, t), LAMBDA q, p :
    IF T(p) = CONS THEN Bind(cadr(q, t), LAMBDA q2, x : WithRet([q2 EXCEPT !.cell[ord(p)] = x], x))
    ELSE Raise(q, 1))
\* a set-cdr! that takes a closure or a macro for a pair
f_setcdrAny(m, t) ==
  Bind(car(m, t), LAMBDA q, p :
    IF IsPairRef(p) THEN Bind(cadr(q, t), LAMBDA q2, x : WithRet([q2 EXCEPT !.cell[ord(p) + 1] = x], x))
    ELSE Raise(q, 1))
f_setcdr(m, t) ==
  Bind(car(m, t), LAMBDA q, p :
    IF T(p) = CONS THEN Bind(cadr(q, t), LAMBDA q2, x : WithRet([q2 EXCEPT !.cell[ord(p) + 1] = x], x))
    ELSE Raise(q, 1))
f_lambda(m, t, e) ==
  Bind(car(m, t), LAMBDA q, v : Bind(cadr(q, t), LAMBDA q2, x : closure(q2, v, x, e)))
f_macro(m, t) == Bind(car(m, t), LAMBDA q, v : Bind(cadr(q, t), LAMBDA q2, x : macro(q2, v, x)))
\* longjmp(jb, 0) makes setjmp return 1; the numbers thrown here are integers
f_throw(m, t) ==
  Bind(car(m, t), LAMBDA q, n : Raise(q, IF n.i = 0 /\ variant # "hpp" THEN 1 ELSE n.i))

\* prim[i].f(x, z) for a primitive that returns without calling eval()
callPrim(m, f, t, e) ==
  CASE f \in {"eval", "quote"} -> f_ident(m, t)
    [] f = "cons" -> f_cons(m, t)
    [] f = "car" -> f_car(m, t)
    [] f = "cdr" -> f_cdr(m, t)
    [] f = "+" -> f_add(m, t)
    [] f = "-" -> f_sub(m, t)
    [] f = "eq?" -> f_eq(m, t)
    [] f = "not" -> f_not(m, t)
    [] f = "lambda" -> f_lambda(m, t, e)
    [] f = "macro" -> f_macro(m, t)
    [] f = "set-car!" -> f_setcar(m, t)
    [] f = "set-cdr!" -> f_setcdr(m, t)
    [] f = "throw" -> f_throw(m, t)
    [] OTHER -> [m EXCEPT !.crash = TRUE]

\* ---- step ----
\* the cells f, d, y and z of an activation of step() with saved stack pointer k
Fc(fr) == fr.k - 1
Dc(fr) == fr.k - 2
Yc(fr) == fr.k - 3
Zc(fr) == fr.k - 4
SetCell(m, k, v) == IF Ok(m) /\ k \in DOMAIN m.cell THEN [m EXCEPT !.cell[k] = v] ELSE m
CAR(m, p) == Cell(m.cell, ord(p))
CDR(m, p) == Cell(m.cell, ord(p) + 1)

\* k = sp; f = push(nil); d = push(nil); y = push(nil); z = push(nil)
stepEntry(m, fr) ==
  Goto(push(push(push(push(m, nil), nil), nil), nil), [fr EXCEPT !.pc = "loop", !.k = m.sp])

\* break: unwind(k); return x
stepBreak(m, fr) == Return(unwind(m, fr.k), m.ret)

\* the head of the loop
stepLoop(m, fr) ==
  IF T(fr.x) = ATOM THEN stepBreak(assoc(m, fr.x, fr.e), fr)
  ELSE IF T(fr.x) # CONS THEN stepBreak(WithRet(m, fr.x), fr)
  ELSE Call(m, [fr EXCEPT !.pc = "fun"], StepFrame(CAR(m, fr.x), fr.e))

\* x = *y = <the value the primitive returned>; e = *z; continue or break
stepPrimRet(m, fr) ==
  IF PrimName(fr.i) \in TAILCALL
  THEN Goto(SetCell(m, Yc(fr), m.ret),
            [fr EXCEPT !.pc = "loop", !.x = m.ret, !.e = Cell(m.cell, Zc(fr))])
  ELSE stepBreak(SetCell(m, Yc(fr), m.ret), fr)

\* *z = e; x = *y = prim[i].f(x, z), with the arguments x
stepPrim(m, fr) ==
  IF PrimName(fr.i) \in CALLING
  THEN Call(SetCell(m, Zc(fr), fr.e), [fr EXCEPT !.pc = "primret"],
            PrimFrame(PrimFn[PrimName(fr.i)], fr.x, Ref(Zc(fr))))
  ELSE stepPrimRet(callPrim(SetCell(m, Zc(fr), fr.e), PrimName(fr.i), fr.x, fr.e), fr)

\* x = *y = cdr(car(*f)); e = *z = *d; continue
\* the body evaluated by a nested eval(), as a primitive without TAILCALL would be
stepTailNested(m, fr) ==
  Call(SetCell(SetCell(m, Yc(fr), m.ret), Zc(fr), Cell(m.cell, Dc(fr))),
       [fr EXCEPT !.pc = "primret",
                  !.i = CHOOSE i \in 0..(Len(prim) - 1) : PrimName(i) \notin TAILCALL],
       StepFrame(m.ret, Cell(m.cell, Dc(fr))))
\* x = *y = cdr(car(*f)); e = *z = *d; and back to the head of the loop
stepTail(m, fr) ==
  Goto(SetCell(SetCell(m, Yc(fr), m.ret), Zc(fr), Cell(m.cell, Dc(fr))),
       [fr EXCEPT !.pc = "loop", !.x = m.ret, !.e = Cell(m.cell, Dc(fr))])
stepBody(m, fr) ==
  stepTail(Bind(car(m, Cell(m.cell, Fc(fr))), LAMBDA q, c : cdr(q, c)), fr)

\* if (T(v) != NIL) *d = pair(v, x, *d), then the body
stepRest(m, fr) ==
  IF T(fr.v) # NIL
  THEN stepBody(Store(pair(m, fr.v, fr.x, Cell(m.cell, Dc(fr))), Dc(fr)), fr)
  ELSE stepBody(m, fr)

\* the loop that binds parameters to evaluated arguments, and what follows it
stepBind(m, fr) ==
  IF T(fr.v) = CONS /\ T(fr.x) = CONS
  THEN Call(m, [fr EXCEPT !.pc = "bound", !.a = IF Ltr THEN CAR(m, fr.v) ELSE nil],
            StepFrame(CAR(m, fr.x), fr.e))
  ELSE IF T(fr.v) = CONS THEN Call(m, [fr EXCEPT !.pc = "dot"], StepFrame(fr.x, fr.e))
  ELSE IF T(fr.x) = CONS THEN Call(m, [fr EXCEPT !.pc = "rest"], EvlisFrame(fr.x, fr.e))
  ELSE IF T(fr.x) # NIL THEN Call(m, [fr EXCEPT !.pc = "rest"], StepFrame(fr.x, fr.e))
  ELSE stepRest(m, fr)

\* *d = pair(car(v), <the value of the argument>, *d); v = cdr(v); x = cdr(x)
stepBoundNext(m, fr) == stepBind(m, [fr EXCEPT !.v = CDR(m, fr.v), !.x = CDR(m, fr.x)])
stepBound(m, fr) ==
  stepBoundNext(Store(pair(m, IF Ltr THEN fr.a ELSE CAR(m, fr.v), rv, Cell(m.cell, Dc(fr))),
                      Dc(fr)), fr)

\* while (T(v) == CONS && T(*y) == CONS) { *d = pair(car(v), car(*y), *d); ... }
\* returns v
RECURSIVE stepDotLoop(_, _, _)
stepDotNext(m, fr, v) ==
  stepDotLoop(SetCell(m, Yc(fr), CDR(m, Cell(m.cell, Yc(fr)))), fr, CDR(m, v))
stepDotLoop(m, fr, v) ==
  IF ~Ok(m) THEN m
  ELSE IF T(v) = CONS /\ T(Cell(m.cell, Yc(fr))) = CONS
       THEN stepDotNext(Store(pair(m, CAR(m, v), CAR(m, Cell(m.cell, Yc(fr))),
                                   Cell(m.cell, Dc(fr))), Dc(fr)), fr, v)
       ELSE [m EXCEPT !.ret = v]
\* too few arguments
\* the error raised with the code of bad arguments
stepTooFewBad(m) == Raise(m, 5)
\* if (T(v) == CONS) err(4)
stepTooFew(m) == Raise(m, 4)
stepDotEnd(m, fr) ==
  IF T(m.ret) = CONS THEN Goto(stepTooFew(m), fr)
  ELSE stepRest(m, [fr EXCEPT !.v = m.ret, !.x = Cell(m.cell, Yc(fr))])
\* *y = eval(x, e), then the loop
stepDot(m, fr) == stepDotEnd(stepDotLoop(SetCell(m, Yc(fr), rv), fr, fr.v), fr)

\* a macro: *d = env; v = car(*f); bind the parameters to the unevaluated arguments
\* returns v and x
RECURSIVE macroLoop(_, _, _, _)
macroNext(m, fr, v, x) == macroLoop(m, fr, CDR(m, v), CDR(m, x))
macroLoop(m, fr, v, x) ==
  IF ~Ok(m) THEN m
  ELSE IF T(v) = CONS /\ T(x) = CONS
       THEN macroNext(Store(pair(m, CAR(m, v), CAR(m, x), Cell(m.cell, Dc(fr))), Dc(fr)),
                      fr, v, x)
       ELSE [m EXCEPT !.ret = [v |-> v, x |-> x]]
\* x = *y = eval(cdr(*f), *d)
macroCall(m, fr) ==
  Call(m, [fr EXCEPT !.pc = "macro"],
       StepFrame(CDR(m, Cell(m.cell, Fc(fr))), Cell(m.cell, Dc(fr))))
macroEnd(m, fr) ==
  IF ~Ok(m) THEN Goto(m, fr)
  ELSE IF T(m.ret.v) = CONS THEN Goto(Raise(m, 4), fr)
  ELSE IF T(m.ret.v) # NIL
       THEN macroCall(Store(pair(m, m.ret.v, m.ret.x, Cell(m.cell, Dc(fr))), Dc(fr)), fr)
       ELSE macroCall(m, fr)
\* a macro expanded in the environment of the caller
stepMacroCaller(m, fr) ==
  macroEnd(macroLoop(SetCell(m, Dc(fr), fr.e), fr, CAR(m, Cell(m.cell, Fc(fr))), fr.x), fr)
stepMacro(m, fr) ==
  macroEnd(macroLoop(SetCell(m, Dc(fr), m.env), fr, CAR(m, Cell(m.cell, Fc(fr))), fr.x), fr)
stepMacroRet(m, fr) == Goto(SetCell(m, Yc(fr), rv), [fr EXCEPT !.pc = "loop", !.x = rv])

\* a closure: *d = cdr(*f), or env if that is nil; v = car(car(*f))
stepClosV(m, fr) == stepBind(m, [fr EXCEPT !.v = m.ret])
stepClos(m, fr, f) ==
  stepClosV(Bind(car(SetCell(m, Dc(fr), IF T(CDR(m, f)) = NIL THEN m.env ELSE CDR(m, f)), f),
                 LAMBDA q, c : car(q, c)), fr)

\* after *f = eval(car(x), e); x = cdr(x)
stepApply(m, fr, f) ==
  IF T(f) = PRIM
  THEN IF PrimName(ord(f)) \in SPECIAL THEN stepPrim(m, [fr EXCEPT !.i = ord(f)])
       ELSE Call(m, [fr EXCEPT !.pc = "prim", !.i = ord(f)], EvlisFrame(fr.x, fr.e))
  ELSE IF T(f) \notin {CLOS, MACR} THEN Goto(Raise(m, 4), fr)
  ELSE IF T(f) = CLOS THEN stepClos(m, fr, f)
  ELSE stepMacro(m, fr)
stepFun(m, fr) == stepApply(SetCell(m, Fc(fr), rv), [fr EXCEPT !.x = CDR(m, fr.x)], rv)

\* one segment of step(): from a call of eval() or evlis() to the next
step(m, fr) ==
  CASE fr.pc = "entry" -> stepEntry(m, fr)
    [] fr.pc = "loop" -> stepLoop(m, fr)
    [] fr.pc = "fun" -> stepFun(m, fr)
    [] fr.pc = "prim" -> stepPrim(m, [fr EXCEPT !.x = rv])
    [] fr.pc = "primret" -> stepPrimRet(WithRet(m, rv), fr)
    [] fr.pc = "bound" -> stepBound(m, fr)
    [] fr.pc = "dot" -> stepDot(m, fr)
    [] fr.pc = "rest" -> stepRest(m, [fr EXCEPT !.x = rv])
    [] fr.pc = "macro" -> stepMacroRet(m, fr)

\* ---- evlis ----
\* for (; T(t) == CONS; t = cdr(t)) ...; if (T(t) == ATOM) *p = assoc(t, e); return pop()
evlisLoop(m, fr) ==
  IF T(fr.t) = CONS THEN Call(m, [fr EXCEPT !.pc = "item"], StepFrame(CAR(m, fr.t), fr.e))
  ELSE IF T(fr.t) = ATOM THEN Ret(pop(Store(assoc(m, fr.t, fr.e), fr.p)))
  ELSE Ret(pop(m))
\* p = &CDR(*p); t = cdr(t)
evlisNext(m, fr) ==
  evlisLoop(m, [fr EXCEPT !.p = ord(Cell(m.cell, fr.p)) + 1, !.t = CDR(m, fr.t)])
evlis(m, fr) ==
  CASE fr.pc = "entry" -> evlisLoop(push(m, nil), [fr EXCEPT !.p = m.sp - 1])
    [] fr.pc = "item" -> evlisNext(Store(cons(m, rv, nil), fr.p), fr)

\* ---- primitives that call eval() ----
BeginFrame(t, e) == [PrimFrame("f_begin", t, e) EXCEPT !.pc = "loop"]

\* for (; more(t); t = cdr(t)) eval(car(t), *e); return T(t) == NIL ? nil : car(t)
f_beginLoop(m, fr) ==
  IF T(fr.t) = NIL THEN Return(m, nil)
  ELSE IF ~IsPairRef(fr.t) THEN Fail(m, 1)
  ELSE IF T(CDR(m, fr.t)) # NIL
       THEN Call(m, [fr EXCEPT !.pc = "next"], StepFrame(CAR(m, fr.t), Deref(m, fr.e)))
       ELSE Return(m, CAR(m, fr.t))
f_begin(m, fr) ==
  IF fr.pc = "next" THEN f_beginLoop(m, [fr EXCEPT !.t = CDR(m, fr.t)]) ELSE f_beginLoop(m, fr)

\* not(eval(car(t), *e)) ? f_begin(cdr(cdr(t)), e) : car(cdr(t))
f_if(m, fr) ==
  IF fr.pc = "entry"
  THEN Bind(car(m, fr.t),
            LAMBDA q, c : Call(q, [fr EXCEPT !.pc = "test"], StepFrame(c, Deref(q, fr.e))))
  ELSE IF T(rv) = NIL
       THEN Bind(Bind(cdr(m, fr.t), LAMBDA q, d : cdr(q, d)),
                 LAMBDA q, dd : f_beginLoop(q, BeginFrame(dd, fr.e)))
       ELSE Ret(cadr(m, fr.t))

\* while (T(t) != NIL && not(eval(car(car(t)), *e))) t = cdr(t)
f_condLoop(m, fr) ==
  IF T(fr.t) = NIL THEN Return(m, nil)
  ELSE Bind(Bind(car(m, fr.t), LAMBDA q, c : car(q, c)),
            LAMBDA q, cc : Call(q, [fr EXCEPT !.pc = "test"], StepFrame(cc, Deref(q, fr.e))))
f_cond(m, fr) ==
  IF fr.pc = "entry" THEN f_condLoop(m, fr)
  ELSE IF T(rv) = NIL
       THEN Bind(cdr(m, fr.t), LAMBDA q, d : f_condLoop(q, [fr EXCEPT !.t = d]))
       ELSE Bind(Bind(car(m, fr.t), LAMBDA q, c : cdr(q, c)),
                 LAMBDA q, b : f_beginLoop(q, BeginFrame(b, fr.e)))

\* env = pair(car(t), eval(car(cdr(t)), *e), env); return car(t)
\* a holds car(t) when the build evaluates it before the call of eval(), d holds
\* env when the build evaluates that before the call
f_define(m, fr) ==
  IF fr.pc = "entry"
  THEN Bind(car(m, fr.t), LAMBDA q, a :
         Bind(cadr(q, fr.t), LAMBDA q2, x :
           Call(q2, [fr EXCEPT !.pc = "bind", !.a = a, !.d = q2.env],
                StepFrame(x, Deref(q2, fr.e)))))
  ELSE Ret(car(SetEnv(pair(m, IF Ltr THEN fr.a ELSE CAR(m, fr.t), rv,
                           IF Ltr THEN m.env ELSE fr.d)), fr.t))

\* x = eval(car(cdr(t)), *e), v = car(t), d = *e; the binding of v in d gets x
\* a setq that stores nothing
setqEndNone(m, d) == IF T(d) # CONS THEN Raise(m, 3) ELSE WithRet(m, rv)
setqEnd(m, d) ==
  IF T(d) # CONS THEN Raise(m, 3)
  ELSE IF ~IsPairRef(CAR(m, d)) THEN Raise(m, 1)
  ELSE WithRet(SetCell(m, ord(CAR(m, d)) + 1, rv), rv)

setqLoop(m, v, d) == setqEnd(m, assocLoop(m, v, d))

f_setq(m, fr) ==
  IF fr.pc = "entry"
  THEN Bind(cadr(m, fr.t),
            LAMBDA q, x : Call(q, [fr EXCEPT !.pc = "set"], StepFrame(x, Deref(q, fr.e))))
  ELSE Ret(Bind(car(m, fr.t), LAMBDA q, v : setqLoop(q, v, Deref(q, fr.e))))

\* ---- let, let*, letrec, letrec* ----
\* for (s = t; more(s); s = cdr(s)) *e = pair(car(car(s)), nil, *e)
RECURSIVE letrecInit(_, _, _)
letrecInit(m, fr, s) ==
  IF ~Ok(m) \/ T(s) = NIL THEN m
  ELSE IF ~IsPairRef(s) THEN Raise(m, 1)
  ELSE IF T(CDR(m, s)) = NIL THEN m
  ELSE letrecInit(Store(Bind(car(m, CAR(m, s)),
                             LAMBDA q, v : pair(q, v, nil, Deref(q, fr.e))), fr.e.i),
                  fr, CDR(m, s))
\* f_begin(cdr(car(t)), e), or f_begin(cdr(car(t)), &d) in f_let
letBegin(m, fr) ==
  Bind(cdr(m, CAR(m, fr.t)),
       LAMBDA q, b : Call(q, [fr EXCEPT !.pc = "begun"],
                          BeginFrame(b, IF fr.fn = "f_let" THEN Local(fr.d) ELSE fr.e)))
\* the head of the loop over the bindings
letLoop(m, fr) ==
  IF T(fr.t) = NIL THEN Return(m, nil)
  ELSE IF ~IsPairRef(fr.t) THEN Fail(m, 1)
  ELSE IF T(CDR(m, fr.t)) = NIL THEN Return(m, CAR(m, fr.t))
  ELSE IF fr.fn \in {"f_let", "f_leta"}
       THEN Bind(car(m, CAR(m, fr.t)), LAMBDA q, a : letBegin(q, [fr EXCEPT !.a = a]))
  ELSE IF fr.fn = "f_letreca"
       THEN letBegin(Store(Bind(car(m, CAR(m, fr.t)),
                                LAMBDA q, v : pair(q, v, nil, Deref(q, fr.e))), fr.e.i), fr)
  ELSE letBegin(m, fr)
\* the value of the binding has been evaluated
letBind(m, fr) ==
  IF fr.fn \in {"f_let", "f_leta"}
  THEN Store(pair(m, IF Ltr THEN fr.a ELSE CAR(m, CAR(m, fr.t)), rv, Deref(m, fr.e)), fr.e.i)
  ELSE IF fr.fn = "f_letrec"
       THEN Bind(car(m, fr.s), LAMBDA q, b : SetCell(q, ord(b) + 1, rv))
       ELSE Bind(car(m, Deref(m, fr.e)), LAMBDA q, b : SetCell(q, ord(b) + 1, rv))
letNext(m, fr) ==
  letLoop(m, [fr EXCEPT !.t = CDR(m, fr.t),
                        !.s = IF fr.fn = "f_letrec" THEN CDR(m, fr.s) ELSE fr.s])
letEntered(m, fr) == letLoop(m, [fr EXCEPT !.d = Deref(m, fr.e), !.s = Deref(m, fr.e)])
f_let(m, fr) ==
  CASE fr.pc = "entry" ->
         letEntered(IF fr.fn = "f_letrec" THEN letrecInit(m, fr, fr.t) ELSE m, fr)
    [] fr.pc = "begun" ->
         Call(m, [fr EXCEPT !.pc = "bind"],
              StepFrame(rv, IF fr.fn = "f_let" THEN fr.d ELSE Deref(m, fr.e)))
    [] fr.pc = "bind" -> letNext(letBind(m, fr), fr)

\* ---- catch ----
\* sp = savedsp and jb = savedjb (the end of the try block), return x
\* a return of f_catch that leaves jb as the evaluation left it
catchReturnKeep(m, fr) == Return(unwind(m, fr.savedsp), m.ret)
\* memcpy(jb, savedjb, sizeof(jb)); sp = savedsp; return x
catchReturn(m, fr) == [Return(unwind(m, fr.savedsp), m.ret) EXCEPT !.jb = fr.savedjb]
\* x = cons(atom("ERR"), n); an error raised here finds this activation still there
catchHandled(m, fr) == IF Ok(m) THEN catchReturn(m, fr) ELSE Goto(m, fr)
f_catch(m, fr) ==
  CASE fr.pc = "entry" ->
         [Bind(car(m, fr.t),
               LAMBDA q, x : Call(q, [fr EXCEPT !.pc = "try", !.savedsp = m.sp, !.savedjb = jb],
                                  StepFrame(x, Deref(q, fr.e))))
            EXCEPT !.jb = Len(ctl)]
    [] fr.pc = "try" -> catchReturn(WithRet(m, rv), fr)
    [] fr.pc = "handler" ->
         catchHandled(Bind(atom(m, Code["ERR"]), LAMBDA q, a : cons(q, a, num(err))), fr)

\* ---- print ----
\* what print() writes for x, as a tree; n bounds the depth
RECURSIVE Show(_, _, _)
Show(m, x, n) ==
  CASE T(x) = NIL -> [k |-> "nil"]
    [] T(x) = 0 -> [k |-> "num", n |-> x.i]
    [] T(x) = ATOM -> [k |-> "atom", s |-> StrAt(m.heap, ord(x))]
    [] T(x) = STRG -> [k |-> "string", s |-> StrAt(m.heap, ord(x))]
    [] T(x) = CONS -> IF n = 0 THEN [k |-> "deep"]
                      ELSE [k |-> "cons", a |-> Show(m, CAR(m, x), n - 1),
                            d |-> Show(m, CDR(m, x), n - 1)]
    [] OTHER -> [k |-> "boxed", t |-> T(x), i |-> ord(x)]
ShowDepth == 8

\* an error that no handler catches ends the program: abort() in main() of the
\* C files, std::terminate() in lisp.hpp
Terminate(m) == IF m.err # 0 THEN [m EXCEPT !.crash = TRUE] ELSE m
\* i = gc() for the prompt: in lisp-repl.cpp prompt() is called outside the try block
mainGc(m) == IF variant = "hpp" THEN Terminate(gc(m)) ELSE gc(m)
\* ---- the reader ----
ListFrame(p) == [fn |-> "list", pc |-> "loop", p |-> p]
QuoteFrame == [fn |-> "quote", pc |-> "entry", p |-> 0]
\* parse() for a token that is neither ( nor ': a string, a number, an atom
parseLeaf(m) ==
  IF Buf(m) \in DOMAIN StrOf THEN string(m, StrOf[Buf(m)])
  ELSE IF Buf(m) \in DOMAIN NumOf THEN WithRet(m, num(NumOf[Buf(m)]))
  ELSE IF Buf(m) # ")" THEN atom(m, Code[Buf(m)])
  ELSE Raise(m, 8)
\* parse() called by the activation fr, which goes on with K once it has the value:
\* list() starts with p = push(nil)
parseThen(m, fr, pc, K(_, _)) ==
  IF ~Ok(m) THEN Goto(m, fr)
  ELSE IF Buf(m) = "(" THEN Call(push(m, nil), [fr EXCEPT !.pc = pc], ListFrame(m.sp - 1))
  ELSE IF Buf(m) = "'" THEN Call(m, [fr EXCEPT !.pc = pc], QuoteFrame)
  ELSE K(parseLeaf(m), fr)
\* *p = cons(parse(), nil); p = &CDR(*p)
listStored(m, fr) ==
  Goto(Store(m, fr.p), [fr EXCEPT !.pc = "loop", !.p = ord(m.ret) + 1])
listAppendNew(m, fr) == listStored(consNil(m), fr)
\* *p = readlisp(); if (scan() != ')') ERR(8); return pop()
listClose(m) == IF Buf(m) # ")" THEN Raise(m, 8) ELSE pop(m)
listDot(m, fr) == Ret(listClose(scan(Store(m, fr.p))))
\* one turn of the loop of list(), after scan()
listTok(m, fr) ==
  IF Buf(m) = ")" THEN Ret(pop(m))
  ELSE IF Buf(m) = "." THEN parseThen(scan(m), fr, "dot", listDot)
  ELSE parseThen(m, fr, "item", listAppendNew)
list(m, fr) ==
  CASE fr.pc = "loop" -> listTok(scan(m), fr)
    [] fr.pc = "item" -> listAppendNew(WithRet(m, rv), fr)
    [] fr.pc = "dot" -> listDot(WithRet(m, rv), fr)
\* x = cons(readlisp(), nil); return cons(atom("quote"), x)
parseQuote(m) == Bind(atom(m, Code["quote"]), LAMBDA q, a : cons(q, a, m.ret))
quoteEnd(m, fr) == Ret(parseQuote(consNil(m)))
quote(m, fr) ==
  IF fr.pc = "entry" THEN parseThen(scan(m), fr, "quoted", quoteEnd)
  ELSE quoteEnd(WithRet(m, rv), fr)

\* ---- the read-eval-print loop ----
\* print(eval(*push(readlisp()), env))
mainPushed(m, fr) ==
  Call(m, [fr EXCEPT !.pc = "print"], StepFrame(Cell(m.cell, m.sp), m.env))
mainEval(m, fr) == mainPushed(push(m, m.ret), fr)
mainRead(m, fr) == parseThen(scan(m), fr, "read", mainEval)
main(m, fr) ==
  CASE fr.pc = "loop" -> mainRead(mainGc(unwind(m, N)), fr)
    [] fr.pc = "read" -> mainEval(WithRet(m, rv), fr)
    [] OTHER -> Goto(m, [fr EXCEPT !.pc = "loop"])

\* ---- the interpreter ----
Boot ==
  /\ op = "start"
  /\ SetMem(Terminate(boot(PrimNames)))
  /\ op' = "boot"
  /\ ctl' = <<[fn |-> "main", pc |-> "loop"]>>
  /\ jb' = 1
  /\ UNCHANGED <<build, text, signal, rv, out, nops>>
Main ==
  /\ At("main")
  /\ Top.pc = "loop" => inp < Len(prog)
  /\ Finish(main(Mem, Top))
  /\ out' = CASE Top.pc = "print" -> Append(out, Show(Mem, rv, ShowDepth))
              [] Top.pc = "handler" -> Append(out, [k |-> "ERR", n |-> err])
              [] OTHER -> out
Step == At("step") /\ Finish(step(Mem, Top)) /\ UNCHANGED out
Evlis == At("evlis") /\ Finish(evlis(Mem, Top)) /\ UNCHANGED out
Begin == At("f_begin") /\ Finish(f_begin(Mem, Top)) /\ UNCHANGED out
If == At("f_if") /\ Finish(f_if(Mem, Top)) /\ UNCHANGED out
Cond == At("f_cond") /\ Finish(f_cond(Mem, Top)) /\ UNCHANGED out
Define == At("f_define") /\ Finish(f_define(Mem, Top)) /\ UNCHANGED out
Let ==
  /\ ~crash /\ ctl # <<>> /\ Top.fn \in {"f_let", "f_leta", "f_letrec", "f_letreca"}
  /\ Finish(f_let(Mem, Top)) /\ UNCHANGED out
Setq == At("f_setq") /\ Finish(f_setq(Mem, Top)) /\ UNCHANGED out
Catch == At("f_catch") /\ Finish(f_catch(Mem, Top)) /\ UNCHANGED out
Read ==
  /\ ~crash /\ ctl # <<>> /\ Top.fn \in {"list", "quote"}
  /\ Finish(IF Top.fn = "list" THEN list(Mem, Top) ELSE quote(Mem, Top)) /\ UNCHANGED out

Next ==
  \/ Boot \/ Main \/ Read \/ Step \/ Evlis \/ Begin \/ If \/ Cond \/ Define \/ Let \/ Setq
  \/ Catch

\* ---- the programs ----
\* the sizes of the pool and of the stack/heap region: round ones that hold the
\* environment of the primitives and the programs below
PairsSmall == 84
PairsLarge == 104
StackSmall == 128

\* (define s "junk") (define f (lambda r r)) (f (begin (setq s 0) (cons 1 2)))
ProgRest ==
  <<"(", "define", "s", "\"junk\"", ")", "(", "define", "f", "(", "lambda", "r", "r", ")", ")",
    "(", "f", "(", "begin", "(", "setq", "s", "0", ")", "(", "cons", "1", "2", ")", ")", ")">>

\* (((lambda (x) (lambda (y) (+ x y))) 3) 4)
\* (define h ((lambda (x) (lambda (y) (+ x y))) 3))
\* (define + -)
\* (h 4)
\* (+ 3 4)
ProgLex ==
  <<"(", "(", "(", "lambda", "(", "x", ")", "(", "lambda", "(", "y", ")", "(", "+", "x", "y",
    ")", ")", ")", "3", ")", "4", ")", "(", "define", "h", "(", "(", "lambda", "(", "x", ")",
    "(", "lambda", "(", "y", ")", "(", "+", "x", "y", ")", ")", ")", "3", ")", ")", "(",
    "define", "+", "-", ")", "(", "h", "4", ")", "(", "+", "3", "4", ")">>

\* (define f (lambda (n) (g n)))
\* (define g (lambda (n) (+ n 1)))
\* (f 1)
\* (define g (lambda (n) (+ n 2)))
\* (f 1)
ProgGlobal ==
  <<"(", "define", "f", "(", "lambda", "(", "n", ")", "(", "g", "n", ")", ")", ")", "(",
    "define", "g", "(", "lambda", "(", "n", ")", "(", "+", "n", "1", ")", ")", ")", "(", "f",
    "1", ")", "(", "define", "g", "(", "lambda", "(", "n", ")", "(", "+", "n", "2", ")", ")",
    ")", "(", "f", "1", ")">>

\* (define x 1)
\* (define m (macro (a) (cons 'cons (cons a (cons 'x ())))))
\* ((lambda (x) (m x)) 2)
\* (define f (macro (a) (cons 'quote (cons x ()))))
\* ((lambda (x) (f 0)) 2)
ProgMacro ==
  <<"(", "define", "x", "1", ")", "(", "define", "m", "(", "macro", "(", "a", ")", "(", "cons",
    "'", "cons", "(", "cons", "a", "(", "cons", "'", "x", "(", ")", ")", ")", ")", ")", ")",
    "(", "(", "lambda", "(", "x", ")", "(", "m", "x", ")", ")", "2", ")", "(", "define", "f",
    "(", "macro", "(", "a", ")", "(", "cons", "'", "quote", "(", "cons", "x", "(", ")", ")",
    ")", ")", ")", "(", "(", "lambda", "(", "x", ")", "(", "f", "0", ")", ")", "2", ")">>

\* (define x 9) (let (x 1) (y x) (cons x y)) (let* (x 1) (y (+ x 1)) (+ x y))
ProgLet ==
  <<"(", "define", "x", "9", ")", "(", "let", "(", "x", "1", ")", "(", "y", "x", ")", "(",
    "cons", "x", "y", ")", ")", "(", "let*", "(", "x", "1", ")", "(", "y", "(", "+", "x", "1",
    ")", ")", "(", "+", "x", "y", ")", ")">>

\* (define s "junk") (let (x (begin (setq s 0) (cons 1 2))) x)
ProgLetGc ==
  <<"(", "define", "s", "\"junk\"", ")", "(", "let", "(", "x", "(", "begin", "(", "setq", "s",
    "0", ")", "(", "cons", "1", "2", ")", ")", ")", "x", ")">>

\* (letrec (a 1) (cons a a)) (letrec (a 1) (b 2) (cons a b))
ProgLetrec ==
  <<"(", "letrec", "(", "a", "1", ")", "(", "cons", "a", "a", ")", ")", "(", "letrec", "(",
    "a", "1", ")", "(", "b", "2", ")", "(", "cons", "a", "b", ")", ")">>

\* (define n 1)
\* (define acc (lambda (n) (lambda (x) (setq n (+ n x)))))
\* (define a (acc 10))
\* (a 5)
\* (a 5)
\* n
\* (setq y 2)
ProgSetq ==
  <<"(", "define", "n", "1", ")", "(", "define", "acc", "(", "lambda", "(", "n", ")", "(",
    "lambda", "(", "x", ")", "(", "setq", "n", "(", "+", "n", "x", ")", ")", ")", ")", ")",
    "(", "define", "a", "(", "acc", "10", ")", ")", "(", "a", "5", ")", "(", "a", "5", ")",
    "n", "(", "setq", "y", "2", ")">>

\* (define a (begin (define b 1) 2)) b a
ProgDefine ==
  <<"(", "define", "a", "(", "begin", "(", "define", "b", "1", ")", "2", ")", ")", "b", "a">>

\* (car (lambda (x) x))
\* (cdr (macro (x) x))
\* (car 1)
\* (cdr 'a)
\* (define a (cons 1 2))
\* (set-car! a 3)
\* (set-cdr! a "ab")
\* a
\* (set-car! 1 2)
\* (set-cdr! (lambda (x) x) 2)
\* (set-cdr! () 2)
ProgPairs ==
  <<"(", "car", "(", "lambda", "(", "x", ")", "x", ")", ")", "(", "cdr", "(", "macro", "(",
    "x", ")", "x", ")", ")", "(", "car", "1", ")", "(", "cdr", "'", "a", ")", "(", "define",
    "a", "(", "cons", "1", "2", ")", ")", "(", "set-car!", "a", "3", ")", "(", "set-cdr!", "a",
    "\"ab\"", ")", "a", "(", "set-car!", "1", "2", ")", "(", "set-cdr!", "(", "lambda", "(",
    "x", ")", "x", ")", "2", ")", "(", "set-cdr!", "(", ")", "2", ")">>

\* (define loop (lambda (n) (if (eq? n 0) 'done (loop (- n 1))))) (loop 3)
ProgLoop ==
  <<"(", "define", "loop", "(", "lambda", "(", "n", ")", "(", "if", "(", "eq?", "n", "0", ")",
    "'", "done", "(", "loop", "(", "-", "n", "1", ")", ")", ")", ")", ")", "(", "loop", "3",
    ")">>

\* (catch (throw 3))
\* (catch (cons (catch (throw 3)) (throw 4)))
\* (throw 5)
\* (cond ((eq? 1 2) 1) (#t 2))
\* (catch ((lambda (a b) a) 1))
ProgCatch ==
  <<"(", "catch", "(", "throw", "3", ")", ")", "(", "catch", "(", "cons", "(", "catch", "(",
    "throw", "3", ")", ")", "(", "throw", "4", ")", ")", ")", "(", "throw", "5", ")", "(",
    "cond", "(", "(", "eq?", "1", "2", ")", "1", ")", "(", "#t", "2", ")", ")", "(", "catch",
    "(", "(", "lambda", "(", "a", "b", ")", "a", ")", "1", ")", ")">>

\* (define loop (lambda (n) (cond ((eq? n 0) 'done) (#t (begin 0 (let* (k (- n 1)) (loop k)))))))
\* (loop 2)
ProgLoopForms ==
  <<"(", "define", "loop", "(", "lambda", "(", "n", ")", "(", "cond", "(", "(", "eq?", "n",
    "0", ")", "'", "done", ")", "(", "#t", "(", "begin", "0", "(", "let*", "(", "k", "(", "-",
    "n", "1", ")", ")", "(", "loop", "k", ")", ")", ")", ")", ")", ")", ")", "(", "loop", "2",
    ")">>

\* ((lambda (a b) a) 1)
ProgFew == <<"(", "(", "lambda", "(", "a", "b", ")", "a", ")", "1", ")">>

\* (define g (lambda (n) (g (cons n n)))) (catch (g 1)) #t
ProgOom ==
  <<"(", "define", "g", "(", "lambda", "(", "n", ")", "(", "g", "(", "cons", "n", "n", ")",
    ")", ")", ")", "(", "catch", "(", "g", "1", ")", ")", "#t">>

\* the builds: the variant, -DDEBUG (ALWAYS_GC), and the order in which the compiler
\* evaluates the arguments of a call
Builds == [variant : {"single", "hpp"}, debug : BOOLEAN, argorder : {"ltr", "rtl"}]
\* four builds in which every two of these choices occur together
BuildsCover == {b \in Builds : (b.variant = "single") = (b.debug = (b.argorder = "ltr"))}
BuildsDebug == {b \in Builds : b.debug}
BuildsRelease == {b \in Builds : ~b.debug}
Run(p, pool, stack, b) ==
  [prog |-> p, P |-> pool, S |-> stack, variant |-> b.variant, debug |-> b.debug,
   argorder |-> b.argorder]
Runs ==
  {Run(p, 2 * PairsSmall, StackSmall, b) :
     p \in {ProgLex, ProgGlobal, ProgLet, ProgLetrec, ProgSetq, ProgPairs, ProgLoop, ProgCatch,
            ProgOom},
     b \in BuildsCover}
    \cup {Run(p, 2 * PairsLarge, StackSmall, b) : p \in {ProgMacro, ProgLoopForms}, b \in BuildsCover}
    \cup {Run(ProgRest, 2 * PairsSmall, StackSmall, b) : b \in BuildsCover \cup BuildsDebug}
    \cup {Run(ProgLetGc, 2 * PairsSmall, StackSmall, b) : b \in BuildsDebug}
    \cup {Run(ProgDefine, 2 * PairsSmall, StackSmall, b) : b \in BuildsRelease}
    \cup {Run(ProgFew, 2 * PairsSmall, StackSmall, b) : b \in BuildsCover}

Init ==
  /\ \E r \in Runs :
       /\ prog = r.prog /\ P = r.P /\ S = r.S
       /\ variant = r.variant /\ debug = r.debug /\ argorder = r.argorder
  /\ cell = Mem0.cell /\ heap = Mem0.heap /\ fp = 0 /\ hp = H /\ sp = N
  /\ used = {} /\ env = num(0) /\ err = 0 /\ crash = FALSE
  /\ lastgc = NoGc /\ inp = 0
  /\ ctl = <<>> /\ rv = nil /\ jb = 0 /\ out = <<>>
  /\ val = nil /\ back = nil
  /\ sig = "DFL" /\ gcs = Idle
  /\ op = "start"
  /\ nops = 0

Spec == Init /\ [][Next]_vars

\* ---- the memory manager driven by an arbitrary client ----
MemNames == {<<97>>, <<98, 99>>}
Variants == {"single", "hpp"}

\* the statics as the loader leaves them, before main() or the constructor runs
InitMem ==
  /\ variant \in Variants
  /\ P = 2 * MemPairs
  /\ S = MemStack
  /\ cell = Mem0.cell /\ heap = Mem0.heap /\ fp = 0 /\ hp = H /\ sp = N
  /\ used = {} /\ env = num(0) /\ err = 0 /\ crash = FALSE
  /\ lastgc = NoGc
  /\ debug = FALSE /\ argorder = "ltr" /\ prog = <<>> /\ inp = 0
  /\ ctl = <<>> /\ rv = nil /\ jb = 0 /\ out = <<>>
  /\ val = nil /\ back = nil
  /\ sig = "DFL" /\ gcs = Idle
  /\ op = "start"
  /\ nops = 0

Running == op # "start" /\ err = 0 /\ ~crash /\ nops < MaxOps
Slots == sp..(N - 1)
\* the values a client can hold: nil, the environment, what is on the stack
Avail == {nil, env} \cup {cell[k] : k \in Slots}
Commit(m, o) == SetMem(m) /\ op' = o /\ nops' = nops + 1 /\ UNCHANGED <<build, text, signal, ctl, rv, jb, out>>

\* main() up to its loop, with an empty table of primitives
MBoot ==
  /\ op = "start"
  /\ SetMem(boot(<<>>)) /\ op' = "boot"
  /\ UNCHANGED <<build, text, signal, ctl, rv, jb, out, nops>>
MPush == Running /\ \E x \in Avail : Commit(push(Mem, x), "push")
MPop == Running /\ sp < N /\ Commit(pop(Mem), "pop")
MCons == Running /\ \E k \in Slots, x \in Avail, y \in Avail :
           Commit(Store(cons(Mem, x, y), k), "cons")
MDefine == Running /\ \E x \in Avail, y \in Avail :
             Commit(SetEnv(pair(Mem, x, y, env)), "define")
MAtom == Running /\ \E k \in Slots, s \in MemNames : Commit(Store(atom(Mem, s), k), "atom")
MString == Running /\ \E k \in Slots, s \in MemNames : Commit(Store(string(Mem, s), k), "string")
MClosure == Running /\ \E k \in Slots, v \in Avail, x \in Avail :
              Commit(Store(closure(Mem, v, x, env), k), "closure")
MMacro == Running /\ \E k \in Slots, v \in Avail, x \in Avail :
            Commit(Store(macro(Mem, v, x), k), "macro")
MCar == Running /\ \E k \in Slots : IsPairRef(cell[k]) /\ Commit(Store(car(Mem, cell[k]), k), "car")
MCdr == Running /\ \E k \in Slots : IsPairRef(cell[k]) /\ Commit(Store(cdr(Mem, cell[k]), k), "cdr")
\* CAR(p) = x and CDR(p) = x of f_setcar and f_setcdr
MSetCar == Running /\ \E k \in Slots, x \in Avail :
             /\ T(cell[k]) = CONS
             /\ Commit([Mem EXCEPT !.cell[ord(cell[k])] = x], "setcar")
MSetCdr == Running /\ \E k \in Slots, x \in Avail :
             /\ T(cell[k]) = CONS
             /\ Commit([Mem EXCEPT !.cell[ord(cell[k]) + 1] = x], "setcdr")
MGc == Running /\ Commit(gc(Mem), "gc")
\* an error reaches the read-eval-print loop: unwind(N); gc()
MRecover == err # 0 /\ ~crash /\ nops < MaxOps /\ Commit(gc(unwind(Mem, N)), "recover")

NextMem ==
  \/ MBoot \/ MPush \/ MPop \/ MCons \/ MDefine \/ MAtom \/ MString \/ MClosure \/ MMacro
  \/ MCar \/ MCdr \/ MSetCar \/ MSetCdr \/ MGc \/ MRecover

SpecMem == InitMem /\ [][NextMem]_vars

\* ---- what a collection must achieve, stated without the collector ----
AllPairs == {2 * k : k \in 0..((P \div 2) - 1)}

\* the pairs cons() hands out from free pointer f on: f, then the links, up to link 0
RECURSIVE FreeChain(_, _, _)
FreeChain(c, i, seen) ==
  IF i \in seen \/ i \notin DOMAIN c THEN seen
  ELSE IF ord(c[i]) = 0 THEN seen \cup {i}
  ELSE FreeChain(c, ord(c[i]), seen \cup {i})

\* a collection that found n free cells leaves the free list FreePairs
FreePairs(s, n) == IF n = 0 THEN {} ELSE FreeChain(s.cell, s.fp, {})

MarkedPairs(s) == {p \in AllPairs : sweepbit(p \div 2) \in s.used}

\* the pairs named by the roots: the environment and the stack cells
RootPairs(s) ==
  (IF T(s.env) = CONS THEN {ord(s.env)} ELSE {})
    \cup {ord(s.cell[k]) : k \in {j \in (s.sp)..(N - 1) : IsPairRef(s.cell[j])}}

RECURSIVE ReachFrom(_, _)
ReachFrom(c, X) ==
  LET Y == X \cup {ord(c[k]) : k \in {j \in UNION {{q, q + 1} : q \in X} : IsPairRef(Cell(c, j))}}
  IN IF Y = X THEN X ELSE ReachFrom(c, Y)

Reachable(s) == ReachFrom(s.cell, RootPairs(s))

\* the cells a collection must keep intact: those of marked pairs and of the stack
LiveCells(s) == UNION {{q, q + 1} : q \in MarkedPairs(s)} \cup (s.sp)..(N - 1)

\* C1: after every gc() the free list and the marked pairs partition the pool,
\* no pair reachable from the roots is free, and every unreachable pair is free.
C1_GcPartitionsPool ==
  lastgc.n >= 0 =>
    LET s == lastgc.post
        F == FreePairs(s, lastgc.n)
        M == MarkedPairs(s)
        Rch == Reachable(s)
    IN /\ F \cap M = {}
       /\ F \cup M = AllPairs
       /\ Rch \cap F = {}
       /\ (AllPairs \ Rch) \subseteq F

\* a collection that freed a pair in use before it and kept at least three
C1_Witness ==
  /\ lastgc.n > 0
  /\ Cardinality(MarkedPairs(lastgc.post)) >= 3
  /\ \E q \in FreePairs(lastgc.post, lastgc.n) :
        q \notin FreeChain(lastgc.pre.cell, lastgc.pre.fp, {})

ShowNum(n) == [k |-> "num", n |-> n]
ShowAtom(s) == [k |-> "atom", s |-> Code[s]]
ShowCons(a, d) == [k |-> "cons", a |-> a, d |-> d]
ShowErr(n) == [k |-> "ERR", n |-> n]
\* in the runs of program p, the i-th line printed is v
Printed(p, i, v) == (prog = p /\ Len(out) >= i) => out[i] = v
HasPrinted(p, i, v) == prog = p /\ Len(out) >= i /\ out[i] = v

\* the entry of the global environment that binds the atom named s, or what ends
\* the list when there is none
GlobalEntry(s) ==
  While(LAMBDA d : T(d) = CONS /\ StrAt(heap, ord(CAR(Mem, CAR(Mem, d)))) # Code[s],
        LAMBDA d : CDR(Mem, d), env, P)
IsBound(s) == ~crash /\ T(env) = CONS /\ T(GlobalEntry(s)) = CONS
GlobalValue(s) == CDR(Mem, CAR(Mem, GlobalEntry(s)))
\* the name and the value of the first binding of the environment list e
FirstName(e) == StrAt(heap, ord(CAR(Mem, CAR(Mem, e))))
FirstValue(e) == CDR(Mem, CAR(Mem, e))

\* C11: a closure made by lambda in an environment other than the global one
\* keeps that environment list as its scope and resolves its free variables in
\* it: (((lambda (x) (lambda (y) (+ x y))) 3) 4) is 7, and the closure h made by
\* ((lambda (x) (lambda (y) (+ x y))) 3) still yields 7 for (h 4) after (define + -).
C11_LexicalScope ==
  /\ Printed(ProgLex, 1, ShowNum(7))
  /\ Printed(ProgLex, 4, ShowNum(7))
  /\ (prog = ProgLex /\ IsBound("h")) =>
        /\ T(GlobalValue("h")) = CLOS
        /\ T(CDR(Mem, GlobalValue("h"))) = CONS
        /\ FirstName(CDR(Mem, GlobalValue("h"))) = Code["x"]
        /\ FirstValue(CDR(Mem, GlobalValue("h"))) = num(3)

\* (h 4) has printed 7 and (+ 3 4) has printed -1: + was redefined in between
C11_Witness == HasPrinted(ProgLex, 4, ShowNum(7)) /\ HasPrinted(ProgLex, 5, ShowNum(-1))

\* C12: a closure made by lambda while the current environment is the global one
\* has Nil as its scope and resolves its free variables in the global environment
\* of the time of each call: f, defined before g, calls g, and calls the new g
\* after g is defined again.
C12_GlobalScope ==
  /\ Printed(ProgGlobal, 3, ShowNum(2))
  /\ Printed(ProgGlobal, 5, ShowNum(3))
  /\ (prog = ProgGlobal /\ IsBound("f")) =>
        T(GlobalValue("f")) = CLOS /\ CDR(Mem, GlobalValue("f")) = nil

\* (f 1) has printed 2, and 3 after the second define of g
C12_Witness == HasPrinted(ProgGlobal, 3, ShowNum(2)) /\ HasPrinted(ProgGlobal, 5, ShowNum(3))

\* the activation below the top one, which called it
Caller == ctl[Len(ctl) - 1]
\* step() has bound the parameters of a macro and enters eval() of its body
MacroBody ==
  /\ At("step") /\ Top.pc = "entry" /\ Len(ctl) >= 2
  /\ Caller.fn = "step" /\ Caller.pc = "macro"
\* eval() of the body of a macro has returned to step()
MacroExpanded == At("step") /\ Top.pc = "macro"
\* in the programs here every macro has one parameter, a, and is given one argument
MacroScope ==
  MacroBody' =>
    /\ FirstName(Top.e)' = Code["a"]
    /\ FirstValue(Top.e)' = CAR(Mem, Caller.x)'
    /\ CDR(Mem, Top.e)' = env'
MacroSameActivation ==
  (MacroExpanded /\ err' = 0) =>
    /\ Len(ctl') = Len(ctl)
    /\ ctl' = [ctl EXCEPT ![Len(ctl)] = [Top EXCEPT !.pc = "loop", !.x = rv]]

\* C13: a macro's parameters are bound to the unevaluated argument expressions,
\* its body is evaluated in the global environment extended with exactly these
\* bindings, and the expression it yields is evaluated by the same activation of
\* step() in the environment of the caller.
C13_MacroExpansion ==
  [][/\ Printed(ProgMacro, 3, ShowCons(ShowNum(2), ShowNum(2)))'
     /\ Printed(ProgMacro, 5, ShowNum(1))'
     /\ MacroScope
     /\ MacroSameActivation]_vars

\* both macro calls have printed their values
C13_Witness ==
  /\ HasPrinted(ProgMacro, 3, ShowCons(ShowNum(2), ShowNum(2)))
  /\ HasPrinted(ProgMacro, 5, ShowNum(1))

\* C14: in let every value expression is evaluated in the surrounding environment
\* and in let* in the environment extended with the earlier bindings, and the body
\* sees every name bound to the value of its own expression: with x = 9 outside,
\* (let (x 1) (y x) (cons x y)) is (1 . 9) and (let* (x 1) (y (+ x 1)) (+ x y)) is 3,
\* and (let (x (begin (setq s 0) (cons 1 2))) x) is (1 . 2)
C14_LetBinds ==
  /\ Printed(ProgLet, 2, ShowCons(ShowNum(1), ShowNum(9)))
  /\ Printed(ProgLet, 3, ShowNum(3))
  /\ prog = ProgLetGc => ~crash /\ Printed(ProgLetGc, 2, ShowCons(ShowNum(1), ShowNum(2)))

\* C15: in letrec the value of each expression is stored in the binding of its own
\* name, so the body sees every name bound to the value of its expression:
\* (letrec (a 1) (cons a a)) is (1 . 1) and (letrec (a 1) (b 2) (cons a b)) is (1 . 2)
C15_LetrecBinds ==
  /\ Printed(ProgLetrec, 1, ShowCons(ShowNum(1), ShowNum(1)))
  /\ Printed(ProgLetrec, 2, ShowCons(ShowNum(1), ShowNum(2)))

\* the first entry of the environment list e whose name has the bytes v, or what
\* ends the list when there is none
BindingIn(e, v) ==
  While(LAMBDA d : T(d) = CONS /\ StrAt(heap, ord(CAR(Mem, CAR(Mem, d)))) # v,
        LAMBDA d : CDR(Mem, d), e, P)
\* setq has evaluated its expression (the value is rv) and is about to assign
SetqAssigns == At("f_setq") /\ Top.pc = "set" /\ err = 0
SetqTarget == BindingIn(Deref(Mem, Top.e), StrAt(heap, ord(CAR(Mem, Top.t))))
SetqValueCell == ord(CAR(Mem, SetqTarget)) + 1
SetqFrame ==
  SetqAssigns =>
    IF T(SetqTarget) = CONS
    THEN /\ err' = 0 /\ rv' = rv /\ cell'[SetqValueCell] = rv
         /\ \A i \in DOMAIN cell : i # SetqValueCell => cell'[i] = cell[i]
    ELSE err' = 3 /\ cell' = cell

\* C16: setq changes the value of the first binding of the name in the current
\* environment and no other cell, and fails with error 3 changing nothing when
\* the name has no binding; the accumulator made by (acc 10) returns 15 and then
\* 20, the global n = 1 shadowed by the closure's n keeps its value, and
\* (setq y 2) with y unbound is error 3
C16_SetqFirstBinding ==
  [][/\ SetqFrame
     /\ Printed(ProgSetq, 4, ShowNum(15))' /\ Printed(ProgSetq, 5, ShowNum(20))'
     /\ Printed(ProgSetq, 6, ShowNum(1))' /\ Printed(ProgSetq, 7, ShowErr(3))']_vars
C16_Witness ==
  /\ HasPrinted(ProgSetq, 5, ShowNum(20)) /\ HasPrinted(ProgSetq, 6, ShowNum(1))
  /\ HasPrinted(ProgSetq, 7, ShowErr(3))

\* define has evaluated its expression (the value is rv) and is about to bind
DefineBinds == At("f_define") /\ Top.pc = "bind" /\ err = 0
DefinePrepends ==
  DefineBinds =>
    /\ err' = 0 /\ T(env') = CONS
    /\ Cell(cell', ord(env') + 1) = env
    /\ Cell(cell', ord(Cell(cell', ord(env')))) = CAR(Mem, Top.t)
    /\ Cell(cell', ord(Cell(cell', ord(env'))) + 1) = rv

\* C17: define prepends one entry (v . value of x) to the global environment as it
\* stands when x has been evaluated, so the bindings made by defines nested in x
\* stay: after (define a (begin (define b 1) 2)), b is 1 and a is 2
C17_DefinePrepends ==
  [][/\ DefinePrepends
     /\ Printed(ProgDefine, 2, ShowNum(1))' /\ Printed(ProgDefine, 3, ShowNum(2))']_vars

\* step is about to call one of the primitives named, with the evaluated list of
\* arguments rv, which has a first element
PrimApplied(names) ==
  At("step") /\ Top.pc = "prim" /\ err = 0 /\ PrimName(Top.i) \in names /\ T(rv) = CONS
Arg1 == CAR(Mem, rv)
Arg2 == CAR(Mem, CDR(Mem, rv))
\* no pair of the pool and no byte of the heap changes
PoolSame == heap' = heap /\ \A i \in 0 .. (P - 1) : cell'[i] = cell[i]
FailsNotAPair == err' = 1 /\ PoolSame
\* the primitive applied has the name s, and stores the second argument in cell k of its pair
Stores(s, k) ==
  (PrimName(Top.i) = s /\ T(CDR(Mem, rv)) = CONS) =>
    /\ err' = 0 /\ rv' = Arg2 /\ cell'[ord(Arg1) + k] = Arg2
    /\ \A i \in 0 .. (P - 1) : i # ord(Arg1) + k => cell'[i] = cell[i]
Fetches(s, k) == PrimName(Top.i) = s => err' = 0 /\ rv' = Cell(cell, ord(Arg1) + k) /\ PoolSame

LiveNow == UNION {{q, q + 1} : q \in Reachable(Mem)} \cup Slots
LiveAtoms == {k \in LiveNow : T(cell[k]) = ATOM}
NameOf(x) == StrAt(heap, ord(x))
\* atom(s) in this state returns the value of every live atom that has the bytes s
AtomFindsLive(s) ==
  LET r == atom(Mem, s)
  IN Ok(r) => \A k \in LiveAtoms : NameOf(cell[k]) = s => r.ret = r.cell[k]

ShowNil == [k |-> "nil"]
ShowString(s) == [k |-> "string", s |-> s]
\* the characters the reader and the printer treat specially
Ch == [lp |-> 40, rp |-> 41, dq |-> 34, sq |-> 39, bs |-> 92, nl |-> 10, sp |-> 32,
       dot |-> 46, semi |-> 59, minus |-> 45, plus |-> 43, zero |-> 48, e |-> 101]

RECURSIVE Pow(_, _)
Pow(b, n) == IF n = 0 THEN 1 ELSE b * Pow(b, n - 1)
RECURSIVE Digits(_)
Digits(n) == IF n < 10 THEN <<Ch.zero + n>> ELSE Append(Digits(n \div 10), Ch.zero + (n % 10))
RECURSIVE Strip0(_)
Strip0(d) == IF Len(d) > 1 /\ d[Len(d)] = Ch.zero THEN Strip0(SubSeq(d, 1, Len(d) - 1)) ELSE d

\* FLOAT: "%.7g" in lisp-pr-single.c, "%.17lg" in lisp.hpp
FloatDigits == IF variant = "single" THEN 7 ELSE 17
\* the mantissa of the floats: 24 bits, 53 bits
FloatBits == IF variant = "single" THEN 24 ELSE 53

\* the exponent part of %g: at least two digits
Exponent(x) == <<Ch.e, Ch.plus>> \o (IF x < 10 THEN <<Ch.zero>> ELSE <<>>) \o Digits(x)
\* d.ddd with the trailing zeros removed
Mantissa(d) == IF Len(d) = 1 THEN d ELSE <<d[1], Ch.dot>> \o SubSeq(d, 2, Len(d))
\* %.<prec>g of the integer n >= 0 that has more than prec digits: rounded to prec
\* significant digits, to even on a tie
Scientific(n, prec) ==
  LET d == Len(Digits(n))
      unit == Pow(10, d - prec)
      q == n \div unit
      r == n % unit
      up == 2 * r > unit \/ (2 * r = unit /\ q % 2 = 1)
      m == IF up THEN q + 1 ELSE q
  IN IF m = Pow(10, prec) THEN <<Ch.zero + 1>> \o Exponent(d)
     ELSE Mantissa(Strip0(Digits(m))) \o Exponent(d - 1)
RECURSIVE FormatG(_, _)
FormatG(n, prec) ==
  IF n < 0 THEN <<Ch.minus>> \o FormatG(-n, prec)
  ELSE IF Len(Digits(n)) <= prec THEN Digits(n)
  ELSE Scientific(n, prec)

\* print(x) and printlist(t): the characters written
RECURSIVE print(_), printItems(_)
print(x) ==
  CASE x.k = "nil" -> <<Ch.lp, Ch.rp>>
    [] x.k = "atom" -> x.s
    [] x.k = "string" -> <<Ch.dq>> \o x.s \o <<Ch.dq>>
    [] x.k = "cons" -> <<Ch.lp>> \o printItems(x) \o <<Ch.rp>>
    [] x.k = "num" -> FormatG(x.n, FloatDigits)
printItems(t) ==
  print(t.a) \o (IF t.d.k = "nil" THEN <<>>
                 ELSE IF t.d.k # "cons" THEN <<Ch.sp, Ch.dot, Ch.sp>> \o print(t.d)
                 ELSE <<Ch.sp>> \o printItems(t.d))

\* see when the reader is at position p of the text t; past its end the line ends
See(t, p) == IF p <= Len(t) THEN t[p] ELSE Ch.nl
\* seeing(' '): any character from 1 to the space
IsSpace(c) == c > 0 /\ c <= Ch.sp
\* skip white space and ;-comments
RECURSIVE skipLine(_, _), skipSpace(_, _)
skipLine(t, p) == IF See(t, p) = Ch.nl THEN p ELSE skipLine(t, p + 1)
skipSpace(t, p) ==
  IF p > Len(t) THEN p
  ELSE IF t[p] = Ch.semi THEN skipSpace(t, skipLine(t, p + 1))
  ELSE IF IsSpace(t[p]) THEN skipSpace(t, p + 1)
  ELSE p

Token(b, p, n) == [buf |-> b, pos |-> p, err |-> n]
\* esc ? esc-abtnvfr+7 : see
Escaped(c) ==
  LET abtnvfr == <<97, 98, 116, 110, 118, 102, 114>>
      at == {i \in 1 .. 7 : abtnvfr[i] = c}
  IN IF at = {} THEN c ELSE (CHOOSE i \in at : TRUE) + 6
\* while (seeing('\\')) { get(); buf[i++] = <the escaped code>; get(); }
RECURSIVE scanEscapes(_, _, _)
scanEscapes(t, p, b) ==
  IF See(t, p) = Ch.bs THEN scanEscapes(t, p + 2, Append(b, Escaped(See(t, p + 1))))
  ELSE Token(b, p, 0)
\* do { buf[i++] = get(); <escapes> } while (!seeing('"') && !seeing('\n'));
\* if (get() != '"') ERR(8)
RECURSIVE scanString(_, _, _)
scanString(t, p, b) ==
  LET r == scanEscapes(t, p + 1, Append(b, t[p]))
  IN IF See(t, r.pos) # Ch.dq /\ See(t, r.pos) # Ch.nl THEN scanString(t, r.pos, r.buf)
     ELSE Token(r.buf, r.pos + 1, IF See(t, r.pos) = Ch.dq THEN 0 ELSE 8)
\* do buf[i++] = get(); while (!seeing('(') && !seeing(')') && !seeing(' '))
RECURSIVE scanSymbol(_, _, _)
scanSymbol(t, p, b) ==
  IF See(t, p + 1) \in {Ch.lp, Ch.rp} \/ IsSpace(See(t, p + 1))
  THEN Token(Append(b, t[p]), p + 1, 0)
  ELSE scanSymbol(t, p + 1, Append(b, t[p]))
\* scan() from position p on: the token in buf[]; no token when the text has ended,
\* where get() waits for more input
scanText(t, p) ==
  LET q == skipSpace(t, p)
  IN IF q > Len(t) THEN Token(<<>>, q, 0)
     ELSE IF t[q] = Ch.dq THEN scanString(t, q, <<>>)
     ELSE IF t[q] \in {Ch.lp, Ch.rp, Ch.sq} THEN Token(<<t[q]>>, q + 1, 0)
     ELSE scanSymbol(t, q, <<>>)

\* sscanf(buf, "%g%n", &x, &i) > 0 && !buf[i], for the notations that stand for an
\* integer: a sign, digits with a fraction, an exponent e+dd that covers the fraction
IsDigit(c) == c >= Ch.zero /\ c <= Ch.zero + 9
RECURSIVE digitsEnd(_, _)
digitsEnd(b, p) == IF p <= Len(b) /\ IsDigit(b[p]) THEN digitsEnd(b, p + 1) ELSE p
RECURSIVE Value(_)
Value(d) == IF d = <<>> THEN 0 ELSE 10 * Value(SubSeq(d, 1, Len(d) - 1)) + (d[Len(d)] - Ch.zero)
\* the float nearest to the integer n >= 0, to even on a tie
RECURSIVE BitLen(_)
BitLen(n) == IF n = 0 THEN 0 ELSE 1 + BitLen(n \div 2)
RoundFloat(n) ==
  IF BitLen(n) <= FloatBits THEN n
  ELSE LET unit == Pow(2, BitLen(n) - FloatBits)
           q == n \div unit
           r == n % unit
       IN IF 2 * r > unit \/ (2 * r = unit /\ q % 2 = 1) THEN (q + 1) * unit ELSE q * unit
Number(b) ==
  LET negative == b # <<>> /\ b[1] = Ch.minus
      p0 == IF b # <<>> /\ b[1] \in {Ch.minus, Ch.plus} THEN 2 ELSE 1
      p1 == digitsEnd(b, p0)
      p2 == IF p1 <= Len(b) /\ b[p1] = Ch.dot THEN digitsEnd(b, p1 + 1) ELSE p1
      frac == IF p2 > p1 THEN SubSeq(b, p1 + 1, p2 - 1) ELSE <<>>
      hasExp == p2 + 2 <= Len(b) /\ b[p2] = Ch.e /\ b[p2 + 1] = Ch.plus /\ IsDigit(b[p2 + 2])
      p3 == IF hasExp THEN digitsEnd(b, p2 + 2) ELSE p2
      x == IF hasExp THEN Value(SubSeq(b, p2 + 2, p3 - 1)) ELSE 0
      m == Value(SubSeq(b, p0, p1 - 1) \o frac)
      ok == (p1 - p0) + Len(frac) > 0 /\ p3 = Len(b) + 1 /\ x >= Len(frac)
      n == RoundFloat(m * Pow(10, x - Len(frac)))
  IN [ok |-> ok, n |-> IF ~ok THEN 0 ELSE IF negative THEN -n ELSE n]

Parsed(v, p, n) == [v |-> v, pos |-> p, err |-> n]
MoreInput == [k |-> "more"]
RECURSIVE MkList(_, _)
MkList(items, tail) ==
  IF items = <<>> THEN tail ELSE ShowCons(Head(items), MkList(Tail(items), tail))
\* parse() for the token k of the text t, list() from position p on with the
\* elements read so far, and readlisp()
RECURSIVE parseText(_, _), listText(_, _, _), readlisp(_, _)
parseText(t, k) ==
  IF k.err # 0 THEN Parsed(ShowNil, k.pos, k.err)
  ELSE IF k.buf = <<>> THEN Parsed(MoreInput, k.pos, 0)
  ELSE IF k.buf[1] = Ch.lp THEN listText(t, k.pos, <<>>)
  ELSE IF k.buf[1] = Ch.sq
       THEN LET r == readlisp(t, k.pos)
            IN Parsed(ShowCons(ShowAtom("quote"), ShowCons(r.v, ShowNil)), r.pos, r.err)
  ELSE IF k.buf[1] = Ch.dq THEN Parsed(ShowString(Tail(k.buf)), k.pos, 0)
  ELSE IF Number(k.buf).ok THEN Parsed(ShowNum(Number(k.buf).n), k.pos, 0)
  ELSE IF k.buf[1] # Ch.rp THEN Parsed([k |-> "atom", s |-> k.buf], k.pos, 0)
  ELSE Parsed(ShowNil, k.pos, 8)
listText(t, p, items) ==
  LET k == scanText(t, p)
  IN IF k.err # 0 THEN Parsed(ShowNil, k.pos, k.err)
     ELSE IF k.buf = <<>> THEN Parsed(MoreInput, k.pos, 0)
     ELSE IF k.buf = <<Ch.rp>> THEN Parsed(MkList(items, ShowNil), k.pos, 0)
     ELSE IF k.buf = <<Ch.dot>>
          THEN LET r == readlisp(t, k.pos)
                   c == scanText(t, r.pos)
               IN IF r.err # 0 \/ r.v = MoreInput THEN r
                  ELSE IF c.err # 0 THEN Parsed(ShowNil, c.pos, c.err)
                  ELSE IF c.buf = <<>> THEN Parsed(MoreInput, c.pos, 0)
                  ELSE IF c.buf[1] # Ch.rp THEN Parsed(ShowNil, c.pos, 8)
                  ELSE Parsed(MkList(items, r.v), c.pos, 0)
     ELSE LET r == parseText(t, k)
          IN IF r.err # 0 \/ r.v = MoreInput THEN r ELSE listText(t, r.pos, Append(items, r.v))
readlisp(t, p) == parseText(t, scanText(t, p))
\* what the read-eval-print loop gets when it reads the line t: a value, or the error
readLine(t) ==
  LET r == readlisp(t \o <<Ch.nl>>, 1) IN IF r.err # 0 THEN ShowErr(r.err) ELSE r.v

\* ---- printing a value and reading the text back ----
TextDepth == 2
Numbers == {0, 7, -1, 1234567, 12345678}
Names == {<<97>>, <<98, 99>>, <<45>>}
Strings == {<<>>, <<97, 98>>, <<97, 32, 98>>, <<97, 34, 98>>, <<92, 110>>, <<97, 10>>}
Leaves ==
  {ShowNil} \cup {ShowNum(n) : n \in Numbers} \cup {[k |-> "atom", s |-> s] : s \in Names}
    \cup {ShowString(s) : s \in Strings}
FewLeaves == {ShowNil, ShowNum(7), ShowAtom("a"), ShowString(<<97, 98>>)}
RECURSIVE FewTrees(_)
FewTrees(n) ==
  IF n = 0 THEN FewLeaves
  ELSE FewLeaves \cup {ShowCons(a, d) : a \in FewTrees(n - 1), d \in FewTrees(n - 1)}
Values ==
  Leaves \cup {ShowCons(a, d) : a \in Leaves, d \in Leaves}
    \cup {ShowCons(a, d) : a \in FewTrees(TextDepth - 1), d \in FewTrees(TextDepth - 1)}

InitText ==
  /\ variant \in Variants /\ P = 0 /\ S = 0
  /\ cell = <<>> /\ heap = <<>> /\ fp = 0 /\ hp = 0 /\ sp = 0
  /\ used = {} /\ env = nil /\ err = 0 /\ crash = FALSE
  /\ lastgc = NoGc
  /\ debug = FALSE /\ argorder = "ltr" /\ prog = <<>> /\ inp = 0
  /\ ctl = <<>> /\ rv = nil /\ jb = 0 /\ out = <<>>
  /\ val \in Values /\ back = nil
  /\ sig = "DFL" /\ gcs = Idle
  /\ op = "value"
  /\ nops = 0
\* print(val) writes the text
TextPrint ==
  /\ op = "value"
  /\ out' = print(val) /\ op' = "printed"
  /\ UNCHANGED <<build, memory, ctl, rv, jb, nops, text, signal>>
\* the read-eval-print loop reads the text as its next line
TextRead ==
  /\ op = "printed"
  /\ back' = readLine(out) /\ op' = "read"
  /\ UNCHANGED <<build, memory, ctl, rv, jb, nops, out, val, signal>>
NextText == TextPrint \/ TextRead
SpecText == InitText /\ [][NextText]_vars

\* C20: reading the text that print writes for a value (a number, an atom, a
\* string, nil or a tree of pairs over these) gives back a value equal to it
C20_RoundTrip == op = "read" => back = val

\* ---- temporaries across a collection ----
\* the offsets at which the entries of the heap start
EntryStarts ==
  While(LAMBDA r : r.i < hp,
        LAMBDA r : [i |-> r.i + strlen(heap, r.i) + R + 1, s |-> r.s \cup {r.i}],
        [i |-> H + R, s |-> {}], (hp - H) \div (R + 1) + 1).s
\* the names the activations of step() and of the let forms hold in the locals they
\* read after the evaluation of an argument or of a value: the parameter v, and the
\* name a build that evaluates arguments left to right takes before it calls eval()
HeldNames ==
  {ctl[i].v : i \in {j \in DOMAIN ctl : ctl[j].fn = "step" /\ ctl[j].pc \in {"bound", "rest"}}}
    \cup {ctl[i].a : i \in {j \in DOMAIN ctl : ctl[j].fn \in {"step", "f_let", "f_leta"}
                                                   /\ ctl[j].pc \in {"bound", "bind"}}}

\* C3: every atom or string offset that the interpreter took before a collection and
\* uses after it still leads to its entry of the heap, and no run reads or writes
\* through a stale reference
C3_TemporariesProtected ==
  /\ ~crash
  /\ op # "start" => \A x \in HeldNames : IsHeapRef(x) => ord(x) \in EntryStarts

\* cons() is entered with the memory m
ConsEntered(m) == Ok(m) => m.fp \in AllPairs /\ m.fp \notin Reachable(m)

\* C4: whenever cons is entered (by the reader for a list element, by step() for a
\* binding, by the handler of catch for (ERR . n)), fp is the index of a pair of the
\* pool that is not reachable from the roots, also after cons raised out of memory
\* and catch caught the error
C4_ConsTakesFree ==
  /\ (At("f_catch") /\ Top.pc = "handler") => ConsEntered(atom(Mem, Code["ERR"]))
  /\ (err = 0 /\ ((At("step") /\ Top.pc = "bound") \/ (At("list") /\ Top.pc = "item")))
       => ConsEntered(Mem)
\* C5: in the double-precision variant the heap stays one cell below the stack,
\* hp <= 8 * (sp - 1), in every state of the memory manager after main() has
\* initialised it, the states in which push() or alloc() has raised error 6 included
C5_HeapBelowStack == (variant = "hpp" /\ op # "start" /\ ~crash) => hp <= 8 * (sp - 1)
\* C6: the value of (catch e) is (ERR . n) when the evaluation of e raises error n:
\* 3 for (throw 3), 4 for a call with too few arguments, 7 when cons runs out of memory
C6_CatchYieldsErr ==
  /\ Printed(ProgCatch, 1, ShowCons(ShowAtom("ERR"), ShowNum(3)))
  /\ Printed(ProgCatch, 5, ShowCons(ShowAtom("ERR"), ShowNum(4)))
  /\ Printed(ProgOom, 2, ShowCons(ShowAtom("ERR"), ShowNum(7)))
\* f_catch returns to its caller: its activation ends and the one below goes on
CatchReturns == At("f_catch") /\ Top.pc # "entry" /\ ctl' = SubSeq(ctl, 1, Len(ctl) - 1)

LoopHead(p, s) ==
  /\ prog = p /\ At("step") /\ Top.pc = "loop"
  /\ T(Top.x) = CONS /\ T(CAR(Mem, Top.x)) = ATOM
  /\ StrAt(heap, ord(CAR(Mem, Top.x))) = Code[s]
\* the value of the parameter n in the environment of the top activation
LoopN == LET b == assocLoop(Mem, CAR(Mem, CAR(Mem, Top.e)), Top.e) IN CDR(Mem, CAR(Mem, b))

C9_RestBound ==
  prog = ProgRest =>
    /\ ~crash
    /\ Printed(ProgRest, 3, ShowCons(ShowCons(ShowNum(1), ShowNum(2)), ShowNil))
\* the number of pairs at the front of the list x, counted up to n
RECURSIVE Pairs(_, _)
Pairs(x, n) == IF n = 0 \/ T(x) # CONS THEN 0 ELSE 1 + Pairs(CDR(Mem, x), n - 1)
\* step() has bound the arguments that are there and has just evaluated what follows
\* them (rv); more required parameters are left (v) than rv has values
TooFewArgs ==
  /\ At("step") /\ Top.pc = "dot"
  /\ Pairs(Top.v, ShowDepth) > Pairs(rv, ShowDepth)

\* C10 as stated: a closure applied to fewer arguments than it has required
\* parameters fails with error 5 (bad arguments)
C10_TooFewIsBadArguments == [][TooFewArgs => err' = 5]_vars
\* C10 as amended: a closure applied to fewer arguments than it has required
\* parameters fails with error 4 (cannot apply), which the enclosing catch receives:
\* (catch ((lambda (a b) a) 1)) is (ERR . 4) and ((lambda (a b) a) 1) prints ERR 4
C10_TooFewIsCannotApply ==
  [][/\ TooFewArgs => err' = 4 /\ Top'.pc = "handler"
     /\ Printed(ProgCatch, 5, ShowCons(ShowAtom("ERR"), ShowNum(4)))'
     /\ Printed(ProgFew, 1, ShowErr(4))']_vars
\* ((lambda (a b) a) 1) has printed ERR 4
C10_Witness == HasPrinted(ProgFew, 1, ShowErr(4))
\* ---- gc() step by step, with the break signal ----
GcPairs == 5
GcStack == 4
GcOps == 3

\* signal(SIGINT, SIG_IGN) and signal(SIGINT, err): the new disposition
BREAK_KEEP(s) == s
BREAK_OFF(s) == "IGN"
BREAK_ON(s) == "err"

InitGc ==
  /\ variant \in Variants
  /\ P = 2 * GcPairs
  /\ S = GcStack
  /\ cell = Mem0.cell /\ heap = Mem0.heap /\ fp = 0 /\ hp = H /\ sp = N
  /\ used = {} /\ env = num(0) /\ err = 0 /\ crash = FALSE
  /\ lastgc = NoGc
  /\ debug = FALSE /\ argorder = "ltr" /\ prog = <<>> /\ inp = 0
  /\ ctl = <<>> /\ rv = nil /\ jb = 0 /\ out = <<>>
  /\ val = nil /\ back = nil
  /\ sig = "DFL" /\ gcs = Idle
  /\ op = "start"
  /\ nops = 0

\* main() up to its loop (the constructor in lisp.hpp): it ends with BREAK_ON
GcBoot ==
  /\ op = "start"
  /\ SetMem(boot(<<>>)) /\ op' = "boot"
  /\ sig' = BREAK_ON(sig) /\ gcs' = gcs
  /\ UNCHANGED <<build, text, ctl, rv, jb, out, nops>>

\* the interpreter between two collections: operations that do not collect
GcClient ==
  /\ gcs.at = "idle" /\ op # "recover" /\ nops < GcOps
  /\ MPush \/ MCons \/ MSetCar \/ MSetCdr \/ MClosure \/ MMacro \/ MAtom
  /\ lastgc' = lastgc

\* the locals i, j of mark() and its place; stk holds the waiting calls of lisp.hpp
MarkStart(i) ==
  IF variant = "hpp" THEN [i |-> i, j |-> N, stk |-> <<>>, at |-> "test"]
  ELSE [i |-> i, j |-> N, stk |-> <<>>, at |-> IF markbit(i) \in used THEN "done" ELSE "outer"]

\* gc() is called: BREAK_OFF; memset(used, 0, sizeof(used))
GcEnter ==
  /\ gcs.at = "idle" /\ op # "start" /\ err = 0 /\ ~crash
  /\ op = "recover" \/ nops <= GcOps
  /\ sig' = BREAK_OFF(sig)
  /\ used' = {}
  /\ gcs' = [at |-> "env", i |-> sp, n |-> 0, r |-> MarkStart(0), m0 |-> Snapshot(Mem)]
  /\ op' = "gc" /\ nops' = IF nops <= GcOps THEN nops + 1 ELSE nops
  /\ UNCHANGED <<build, text, ctl, rv, jb, out, cell, heap, fp, hp, sp, env, err, crash,
                 lastgc, inp>>

GcSame == UNCHANGED <<build, text, ctl, rv, jb, out, nops, sig, op, lastgc, inp, err, env, sp>>

\* if (T(env) == CONS) mark(ord(env)), then on to the stack
GcEnv ==
  /\ gcs.at = "env"
  /\ gcs' = IF T(env) = CONS THEN [gcs EXCEPT !.at = "mark", !.r = MarkStart(ord(env))]
            ELSE [gcs EXCEPT !.at = "roots"]
  /\ GcSame /\ UNCHANGED <<cell, heap, fp, hp, used, crash>>

\* one turn of a loop of mark()
GcMark ==
  /\ gcs.at = "mark"
  /\ IF gcs.r.at = "done"
     THEN gcs' = [gcs EXCEPT !.at = "roots"] /\ UNCHANGED <<cell, used>>
     ELSE IF variant = "hpp"
          THEN LET r == markRecStep(cell, [u |-> used, i |-> gcs.r.i, stk |-> gcs.r.stk,
                                           at |-> gcs.r.at])
               IN /\ used' = r.u /\ cell' = cell
                  /\ gcs' = [gcs EXCEPT !.r = [i |-> r.i, j |-> N, stk |-> r.stk, at |-> r.at]]
          ELSE LET r == markLoop([c |-> cell, u |-> used, i |-> gcs.r.i, j |-> gcs.r.j,
                                  at |-> gcs.r.at])
               IN /\ used' = r.u /\ cell' = r.c
                  /\ gcs' = [gcs EXCEPT !.r = [i |-> r.i, j |-> r.j, stk |-> <<>>, at |-> r.at]]
  /\ GcSame /\ UNCHANGED <<heap, fp, hp, crash>>

\* for (i = sp; i < N; ++i) if (...) mark(ord(cell[i])); then the head of sweep()
GcRoots ==
  /\ gcs.at = "roots"
  /\ IF gcs.i < N
     THEN /\ gcs' = IF IsPairRef(cell[gcs.i])
                    THEN [gcs EXCEPT !.at = "mark", !.r = MarkStart(ord(cell[gcs.i])),
                                     !.i = gcs.i + 1]
                    ELSE [gcs EXCEPT !.i = gcs.i + 1]
          /\ fp' = fp
     ELSE gcs' = [gcs EXCEPT !.at = "sweep", !.i = P \div 2, !.n = 0] /\ fp' = 0
  /\ GcSame /\ UNCHANGED <<cell, heap, hp, used, crash>>

\* one turn of the loop of sweep()
GcSweep ==
  /\ gcs.at = "sweep"
  /\ IF gcs.i # 0
     THEN LET r == sweepStep(used, [c |-> cell, fp |-> fp, i |-> gcs.i, j |-> gcs.n])
          IN cell' = r.c /\ fp' = r.fp /\ gcs' = [gcs EXCEPT !.i = r.i, !.n = r.j]
     ELSE gcs' = [gcs EXCEPT !.at = "clear"] /\ UNCHANGED <<cell, fp>>
  /\ GcSame /\ UNCHANGED <<heap, hp, used, crash>>

\* the loops of compact(): reset the reference fields, link the cells, move the entries
GcCompact ==
  /\ gcs.at \in {"clear", "link", "move"}
  /\ CASE gcs.at = "clear" ->
            /\ SetMem([Mem EXCEPT !.heap = compactClear(heap, H, hp)])
            /\ gcs' = [gcs EXCEPT !.at = "link"]
       [] gcs.at = "link" ->
            /\ SetMem(compactLink(compactLink(Mem, 0, P, TRUE), sp, N, FALSE))
            /\ gcs' = [gcs EXCEPT !.at = "move"]
       [] gcs.at = "move" ->
            /\ SetMem(compactMove([Mem EXCEPT !.hp = H], hp, H))
            /\ gcs' = [gcs EXCEPT !.at = "end"]
  /\ UNCHANGED <<build, text, ctl, rv, jb, out, nops, sig, op>>

\* BREAK_ON; return i ? i : err(7)
GcEnd ==
  /\ gcs.at = "end"
  /\ sig' = BREAK_ON(sig)
  /\ err' = IF gcs.n = 0 THEN 7 ELSE 0
  /\ lastgc' = [pre |-> gcs.m0, post |-> Snapshot(Mem), n |-> gcs.n]
  /\ gcs' = Idle /\ op' = "collected"
  /\ UNCHANGED <<build, text, ctl, rv, jb, out, nops, cell, heap, fp, hp, sp, used, env,
                 crash, inp>>

\* SIGINT arrives: the handler leaves whatever runs through longjmp(jb, 2), and
\* SIG_IGN discards the signal
Break ==
  /\ op # "start" /\ err = 0 /\ ~crash /\ sig # "DFL"
  /\ IF sig = "err"
     THEN err' = 2 /\ gcs' = Idle /\ op' = "break"
     ELSE err' = err /\ gcs' = gcs /\ op' = "ignored"
  /\ UNCHANGED <<build, text, ctl, rv, jb, out, nops, sig, cell, heap, fp, hp, sp, used, env,
                 crash, lastgc, inp>>

\* the error reaches main(): it prints ERR n and goes to the head of its loop,
\* unwind(N), where it calls gc()
GcRecover ==
  /\ err # 0 /\ ~crash /\ gcs.at = "idle"
  /\ err' = 0 /\ sp' = N /\ op' = "recover"
  /\ UNCHANGED <<build, text, ctl, rv, jb, out, nops, signal, cell, heap, fp, hp, used, env,
                 crash, lastgc, inp>>

NextGc ==
  \/ GcBoot \/ GcClient \/ GcEnter \/ GcEnv \/ GcMark \/ GcRoots \/ GcSweep \/ GcCompact
  \/ GcEnd \/ Break \/ GcRecover

SpecGc == InitGc /\ [][NextGc]_vars

\* a collection made step by step leaves the memory that gc() computes in one go
GcStepsAgree ==
  op = "collected" =>
    lastgc.post = Snapshot(gc([Mem EXCEPT !.cell = lastgc.pre.cell, !.heap = lastgc.pre.heap,
                                          !.fp = lastgc.pre.fp, !.hp = lastgc.pre.hp,
                                          !.used = lastgc.pre.used]))

\* C21: the break signal never takes control out of a collection: in every step in
\* which the handler raises break (error 2), no gc() is between its BREAK_OFF and
\* its BREAK_ON
C21_BreakNotInGc == [][(err = 0 /\ err' = 2) => gcs.at = "idle"]_vars
\* a signal has arrived and was discarded while mark() had a pointer reversed
C21_Witness == op = "ignored" /\ gcs.at = "mark" /\ cell # gcs.m0.cell
\* C22: when an error has reached the read-eval-print loop, the unwind(N) and the
\* gc() at the head of the loop complete: no error is raised, the stack is empty and
\* the collection has found a free pair, so the free list is not empty
C22_ReplRecovers ==
  op = "recover" =>
    /\ err = 0 /\ ~crash
    /\ sp = N
    /\ lastgc.n > 0 /\ fp \in AllPairs /\ fp \notin Reachable(Mem)
\* the loop has recovered from out of memory: the collection before the error found
\* no free pair with the stack as it was
C22_Witness ==
  /\ op = "recover" /\ err = 0
  /\ lastgc.pre.sp = N /\ lastgc.pre.fp = 0 /\ lastgc.n > 0
\* ---- mark() on every small pool ----
MarkPairs == 3
MarkIdx == {2 * k : k \in 0..(MarkPairs - 1)}
\* the kind of each pair, which is the tag of every link to it: all made by cons, or
\* pair 2 made by closure(), or also pair 4 made by macro()
MarkKinds ==
  {[q \in MarkIdx |-> CONS],
   [q \in MarkIdx |-> IF q = 2 THEN CLOS ELSE CONS],
   [q \in MarkIdx |-> IF q = 2 THEN CLOS ELSE IF q = 4 THEN MACR ELSE CONS]}
\* what a cell of the pool holds: nil (-1) or a link to a pair
MarkLinks == [0..(2 * MarkPairs - 1) -> {-1} \cup MarkIdx]
\* closure() makes ((v . x) . e): the car of its pair is a pair made by cons, the
\* cdr is nil or an environment, a list made by cons
ClosureShaped(kd, t) ==
  \A q \in MarkIdx :
    kd[q] = CLOS => /\ t[q] # -1 /\ kd[t[q]] = CONS
                    /\ t[q + 1] # -1 => kd[t[q + 1]] = CONS
\* the cell array: the pool, and one stack cell that holds the root, a link to pair 0
MarkPool(kd, t) ==
  [k \in 0..(2 * MarkPairs) |->
     IF k = 2 * MarkPairs THEN box(kd[0], 0)
     ELSE IF t[k] = -1 THEN nil ELSE box(kd[t[k]], t[k])]

InitMark ==
  /\ variant \in Variants
  /\ P = 2 * MarkPairs
  /\ S = 1
  /\ \E kd \in MarkKinds, t \in MarkLinks : ClosureShaped(kd, t) /\ cell = MarkPool(kd, t)
  /\ heap = <<>> /\ fp = 0 /\ hp = H /\ sp = P
  /\ used = {} /\ env = nil /\ err = 0 /\ crash = FALSE
  /\ lastgc = NoGc
  /\ debug = FALSE /\ argorder = "ltr" /\ prog = <<>> /\ inp = 0
  /\ ctl = <<>> /\ rv = nil /\ jb = 0 /\ out = <<>>
  /\ val = nil /\ back = nil
  /\ sig = "IGN"
  /\ op = "gc"
  /\ nops = 0
  /\ gcs = [at |-> "mark", i |-> N, n |-> 0, r |-> MarkStart(ord(cell[sp])),
            m0 |-> Snapshot(Mem)]

\* gc() has called mark(ord(cell[sp])) with no bit set; the steps are those of mark()
NextMark == GcMark
SpecMark == InitMark /\ [][NextMark]_vars
\* the loops of mark() go on while they can
SpecMarkLive == SpecMark /\ WF_vars(GcMark)

\* ---- the two mark() on the same pool ----
\* the bits of the pairs that the links of Cons, Closure and Macro values reach from pair i
ReachBits(c, i) == {markbit(q) : q \in ReachFrom(c, {i})}
\* a cell other than k holds a link to the same pair as cell k
SharedAt(c, k) == \E j \in 0..(P - 1) : j # k /\ IsPairRef(c[j]) /\ ord(c[j]) = ord(c[k])
\* pair q lies on a cycle of links
OnCycle(c, q) ==
  \E k \in {q, q + 1} : IsPairRef(c[k]) /\ q \in ReachFrom(c, {ord(c[k])})

\* the results a and b of two mark() are those of returned calls, with the bits B
MarkedBoth(a, b, B) == a.at = "done" /\ b.at = "done" /\ a.u = B /\ b.u = B

\* the pool mark() was called on
Pool0 == gcs.m0.cell
\* mark(ord(cell[sp])) has returned
MarkReturned == op = "gc" /\ gcs.at = "roots" /\ gcs.i = N /\ lastgc = NoGc
\* a pair on a cycle, a pair linked from two cells and a link to a closure are
\* reachable from pair i
Tangled(c, i) ==
  /\ \E q \in ReachFrom(c, {i}) : OnCycle(c, q)
  /\ \E q \in ReachFrom(c, {i}) : \E k \in {q, q + 1} : IsPairRef(c[k]) /\ SharedAt(c, k)
  /\ \E q \in ReachFrom(c, {i}) : \E k \in {q, q + 1} : T(c[k]) = CLOS

\* C23: from the same pool and the same root, with no bit set, the recursive mark of
\* lisp.hpp and the pointer-reversal mark of lisp-pr-single.c return, with the same
\* used bits: those of the pairs reachable from the root
C23_MarksAgree ==
  MarkReturned =>
    /\ MarkedBoth(markRec(Pool0, {}, ord(cell[sp])), markPR(Pool0, {}, ord(cell[sp])), used)
    /\ used = ReachBits(Pool0, ord(cell[sp]))
\* the recursive mark has returned on a pool with a cycle, a shared pair and a closure
C23_Witness == MarkReturned /\ variant = "hpp" /\ Tangled(Pool0, ord(cell[sp]))

\* C24: when the pointer-reversal mark returns, every cell holds the tag and the
\* ordinal it held when mark() was called
C24_MarkRestoresCells == (MarkReturned /\ variant # "hpp") => cell = Pool0
\* the pointer-reversal mark has returned on a pool with a cycle, a shared pair, a
\* closure, a macro and a pair that links to itself
C24_Witness ==
  /\ MarkReturned /\ variant = "single" /\ Tangled(Pool0, ord(cell[sp]))
  /\ \E q \in ReachFrom(Pool0, {ord(cell[sp])}) :
       /\ \E k \in {q, q + 1} : T(Pool0[k]) = MACR
       /\ \E k \in {q, q + 1} : IsPairRef(Pool0[k]) /\ ord(Pool0[k]) = q

\* C25: mark() returns on every pool, with cycles or without, in both programs
C25_MarkTerminates == <>MarkReturned
\* mark() has returned on a pool in which the root lies on a cycle through a closure
C25_Witness ==
  /\ MarkReturned
  /\ \E k \in {0, 1} : /\ T(Pool0[k]) = CLOS
                       /\ ord(cell[sp]) \in ReachFrom(Pool0, {ord(Pool0[k])})

\* ---- the heap after gc() ----
\* the entries of the heap h up to top, in order: the offset of the reference field
\* and the bytes
RECURSIVE HeapEntries(_, _, _)
HeapEntries(h, i, top) ==
  IF i >= top \/ i \notin DOMAIN h THEN <<>>
  ELSE <<[at |-> i, s |-> StrAt(h, i + R)]>>
         \o HeapEntries(h, i + strlen(h, i + R) + R + 1, top)
\* the bytes of the entries, in order
EntryBytes(E) == [k \in DOMAIN E |-> E[k].s]
RECURSIVE EntrySizes(_)
EntrySizes(E) == IF E = <<>> THEN 0 ELSE R + Len(Head(E).s) + 1 + EntrySizes(Tail(E))
\* an Atom or String value in one of the cells K of c refers to entry e
ReferredFrom(c, K, e) == \E k \in K : IsHeapRef(c[k]) /\ ord(c[k]) = e.at + R

RECURSIVE FreeSeq(_, _, _)
FreeSeq(c, f, n) ==
  IF n = 0 \/ f \notin AllPairs THEN <<>>
  ELSE <<f>> \o (IF ord(c[f]) = 0 THEN <<>> ELSE FreeSeq(c, ord(c[f]), n - 1))
\* the free list after a gc() that returned n
FreeOrder(c, f, n) == IF n = 0 THEN <<>> ELSE FreeSeq(c, f, P \div 2 + 1)
\* gc() has just returned to the client
JustCollected == op \in {"gc", "recover"} /\ ~crash /\ lastgc.n >= 0

\* C27: a gc() that follows a gc() at once leaves fp, hp, the used bits, the order
\* of the free list and every stack cell as the first left them
C27_GcIdempotent ==
  JustCollected =>
    LET g == gc(Mem)
    IN /\ ~g.crash
       /\ g.fp = fp /\ g.hp = hp /\ g.used = used
       /\ g.lastgc.n = lastgc.n
       /\ FreeOrder(g.cell, g.fp, g.lastgc.n) = FreeOrder(cell, fp, lastgc.n)
       /\ g.sp = sp
       /\ \A k \in sp..(N - 1) : g.cell[k] = cell[k]
\* a gc() has returned that put a pair back on the free list, which holds two
\* pairs, and kept an Atom or String held on the stack
C27_Witness ==
  /\ JustCollected /\ op = "gc"
  /\ Len(FreeOrder(cell, fp, lastgc.n)) >= 2
  /\ FreeOrder(cell, fp, lastgc.n) # FreeOrder(lastgc.pre.cell, lastgc.pre.fp, P)
  /\ \E k \in sp..(N - 1) : IsHeapRef(cell[k])

\* ---- pair 0 ----
\* the cells in use: those of the stack and of the pairs reachable from the roots
LiveCellsOf(m) == UNION {{q, q + 1} : q \in Reachable(m)} \cup (m.sp)..(N - 1)
\* the Cons, Closure and Macro values in use: the environment, the stack cells and
\* the cells of the pairs reachable from them
LivePairValues(m) ==
  {x \in {m.env} \cup {m.cell[k] : k \in LiveCellsOf(m)} : IsPairRef(x)}

\* C28: pair 0 is never in use: no Cons, Closure or Macro value in the environment,
\* on the stack or in a reachable pair has ordinal 0
C28_PairZeroIsSentinel ==
  (op # "start" /\ ~crash) => \A x \in LivePairValues(Mem) : ord(x) # 0

\* ---- the string primitive and the walk over the heap ----
HeapPairs == 6
HeapStack == 6
MaxBytes == 2
\* the byte codes a client puts in a list
HeapBytes == {0, 65}
ByteLists == UNION {[1..n -> HeapBytes] : n \in 0..MaxBytes}

\* what snprintf(buf, sizeof(buf), FLOAT, x) writes for a small integer
NumBytes(n) == IF n < 0 THEN <<Ch.minus>> \o Digits(0 - n) ELSE Digits(n)
\* the car values of the list s, while T(s) is a pair tag
RECURSIVE Items(_, _, _)
Items(c, s, n) ==
  IF n = 0 \/ ~IsPairRef(s) THEN <<>>
  ELSE <<Cell(c, ord(s))>> \o Items(c, Cell(c, ord(s) + 1), n - 1)
\* for (; T(x) == CONS; x = cdr(x)) *(A+i++) = car(x): one byte per element
RECURSIVE ByteCodes(_, _, _)
ByteCodes(c, x, n) ==
  IF n = 0 \/ T(x) # CONS THEN <<>>
  ELSE <<Cell(c, ord(x)).i % 256>> \o ByteCodes(c, Cell(c, ord(x) + 1), n - 1)
\* the bytes one argument x of string contributes
StringPart(m, x) ==
  IF IsHeapRef(x) THEN StrAt(m.heap, ord(x))
  ELSE IF T(x) = CONS THEN ByteCodes(m.cell, x, P)
  ELSE IF T(x) = 0 THEN NumBytes(x.i)
  ELSE <<>>
RECURSIVE StringBytes(_, _)
StringBytes(m, xs) ==
  IF xs = <<>> THEN <<>> ELSE StringPart(m, Head(xs)) \o StringBytes(m, Tail(xs))

\* the second loop of f_string and '*(A+i) = 0': the bytes go to the place j that
\* alloc() returned, read from the cells and the heap as alloc() left them
stringFill(m, t, n) ==
  IF ~Ok(m) THEN m
  ELSE [m EXCEPT !.heap = strcpy(m.heap, m.ret.i, SubSeq(StringBytes(m, Items(m.cell, t, P)), 1, n)),
                 !.ret = box(STRG, m.ret.i)]
\* push(t); i = j = alloc(i); pop();
stringAlloc(m, t, n) == WithRet(pop(alloc(push(m, t), n)), alloc(push(m, t), n).ret)
f_string(m, t) ==
  IF ~Ok(m) THEN m
  ELSE stringFill(stringAlloc(m, t, Len(StringBytes(m, Items(m.cell, t, P)))), t,
                  Len(StringBytes(m, Items(m.cell, t, P))))

\* the list of the numbers bs put in front of the list in stack cell k
RECURSIVE consBytes(_, _, _)
consBytes(m, bs, k) ==
  IF bs = <<>> THEN m
  ELSE consBytes(Store(cons(m, num(bs[Len(bs)]), Cell(m.cell, k)), k),
                 SubSeq(bs, 1, Len(bs) - 1), k)
\* (string '(b1 ... bn)) evaluated with its value kept on the stack: the list
\* and the list of arguments are built in a stack cell, which then takes the value
evalStringOf(m, bs, k) ==
  Bind(consBytes(m, bs, k), LAMBDA q, r :
    Bind(Store(cons(q, Cell(q.cell, k), nil), k), LAMBDA q2, t :
      Store(f_string(q2, t), k)))

InitHeap ==
  /\ variant \in Variants
  /\ P = 2 * HeapPairs
  /\ S = HeapStack
  /\ cell = Mem0.cell /\ heap = Mem0.heap /\ fp = 0 /\ hp = H /\ sp = N
  /\ used = {} /\ env = num(0) /\ err = 0 /\ crash = FALSE
  /\ lastgc = NoGc
  /\ debug = FALSE /\ argorder = "ltr" /\ prog = <<>> /\ inp = 0
  /\ ctl = <<>> /\ rv = nil /\ jb = 0 /\ out = <<>>
  /\ val = nil /\ back = nil
  /\ sig = "DFL" /\ gcs = Idle
  /\ op = "start"
  /\ nops = 0

HString ==
  /\ Running /\ sp > P + 1
  /\ \E bs \in ByteLists : Commit(evalStringOf(push(Mem, nil), bs, sp - 1), "string")
HAtom ==
  /\ Running
  /\ \E s \in MemNames : Commit(Bind(atom(Mem, s), LAMBDA q, a : push(q, a)), "atom")

NextHeap == MBoot \/ HString \/ HAtom \/ MPop \/ MGc \/ MRecover
SpecHeap == InitHeap /\ [][NextHeap]_vars

\* where the walk over the entries of h that starts at i first reaches or passes top
RECURSIVE WalkEnd(_, _, _)
WalkEnd(h, i, top) ==
  IF i >= top \/ i \notin DOMAIN h THEN i
  ELSE WalkEnd(h, i + strlen(h, i + R) + R + 1, top)
\* the Atom and String values in use
LiveNames(m) == {x \in {m.cell[k] : k \in LiveCellsOf(m)} : IsHeapRef(x)}

\* C29: the walk from H over the entries lands on hp, and every Atom or String in
\* use refers to an entry the walk visits
C29_HeapWalkLands ==
  (op # "start" /\ ~crash) =>
    /\ WalkEnd(heap, H, hp) = hp
    /\ \A x \in LiveNames(Mem) :
         \E k \in DOMAIN HeapEntries(heap, H, hp) : HeapEntries(heap, H, hp)[k].at + R = ord(x)

\* ---- the regions of cell[] in single precision ----
\* C30: in lisp-pr-single.c the bytes of the heap end below the bytes of the lowest
\* stack cell and below the end of cell[], and the stack stays above the pool
C30_SingleRegionsDisjoint ==
  (variant = "single" /\ op # "start") =>
    /\ hp <= W * sp
    /\ hp <= W * N
    /\ sp >= P
====
